---- MODULE Spec2Model ----
(***************************************************************************)
(* kana_highlight (src/logic/kana_highlight.py): highlighting of the part  *)
(* of a furigana gloss that belongs to one kanji, and kana_filter.         *)
(*                                                                         *)
(* A Python str is a sequence of one-character tokens.  Hiragana are named *)
(* in romaji ("ka", "xtu" = small tsu, "nn" = the moraic n), katakana are  *)
(* the same names in upper case, kanji are "K_*", the repeater mark is     *)
(* "noma", ASCII letters are "_s", "_b", ..., and punctuation stands for   *)
(* itself ("," is the ideographic comma).                                  *)
(***************************************************************************)
EXTENDS Integers, Sequences, FiniteSets, TLC

(***************************************************************************)
(* Character tables                                                        *)
(***************************************************************************)
Hiragana ==
    {
     "xa", "a", "xi", "i", "xu", "u", "xe", "e", "xo", "o", "ka", "ga", "ki", "gi",
     "ku", "gu", "ke", "ge", "ko", "go", "sa", "za", "si", "zi", "su", "zu", "se",
     "ze", "so", "zo", "ta", "da", "ti", "di", "xtu", "tu", "du", "te", "de", "to",
     "do", "na", "ni", "nu", "ne", "no", "ha", "ba", "pa", "hi", "bi", "pi", "hu",
     "bu", "pu", "he", "be", "pe", "ho", "bo", "po", "ma", "mi", "mu", "me", "mo",
     "xya", "ya", "xyu", "yu", "xyo", "yo", "ra", "ri", "ru", "re", "ro", "xwa", "wa",
     "wi", "we", "wo", "nn"
    }

HiraganaToKatakana ==
    [c \in Hiragana \cup {"vu"} |->
        CASE c = "xa" -> "XA"
          [] c = "a" -> "A"
          [] c = "xi" -> "XI"
          [] c = "i" -> "I"
          [] c = "xu" -> "XU"
          [] c = "u" -> "U"
          [] c = "xe" -> "XE"
          [] c = "e" -> "E"
          [] c = "xo" -> "XO"
          [] c = "o" -> "O"
          [] c = "ka" -> "KA"
          [] c = "ga" -> "GA"
          [] c = "ki" -> "KI"
          [] c = "gi" -> "GI"
          [] c = "ku" -> "KU"
          [] c = "gu" -> "GU"
          [] c = "ke" -> "KE"
          [] c = "ge" -> "GE"
          [] c = "ko" -> "KO"
          [] c = "go" -> "GO"
          [] c = "sa" -> "SA"
          [] c = "za" -> "ZA"
          [] c = "si" -> "SI"
          [] c = "zi" -> "ZI"
          [] c = "su" -> "SU"
          [] c = "zu" -> "ZU"
          [] c = "se" -> "SE"
          [] c = "ze" -> "ZE"
          [] c = "so" -> "SO"
          [] c = "zo" -> "ZO"
          [] c = "ta" -> "TA"
          [] c = "da" -> "DA"
          [] c = "ti" -> "TI"
          [] c = "di" -> "DI"
          [] c = "xtu" -> "XTU"
          [] c = "tu" -> "TU"
          [] c = "du" -> "DU"
          [] c = "te" -> "TE"
          [] c = "de" -> "DE"
          [] c = "to" -> "TO"
          [] c = "do" -> "DO"
          [] c = "na" -> "NA"
          [] c = "ni" -> "NI"
          [] c = "nu" -> "NU"
          [] c = "ne" -> "NE"
          [] c = "no" -> "NO"
          [] c = "ha" -> "HA"
          [] c = "ba" -> "BA"
          [] c = "pa" -> "PA"
          [] c = "hi" -> "HI"
          [] c = "bi" -> "BI"
          [] c = "pi" -> "PI"
          [] c = "hu" -> "HU"
          [] c = "bu" -> "BU"
          [] c = "pu" -> "PU"
          [] c = "he" -> "HE"
          [] c = "be" -> "BE"
          [] c = "pe" -> "PE"
          [] c = "ho" -> "HO"
          [] c = "bo" -> "BO"
          [] c = "po" -> "PO"
          [] c = "ma" -> "MA"
          [] c = "mi" -> "MI"
          [] c = "mu" -> "MU"
          [] c = "me" -> "ME"
          [] c = "mo" -> "MO"
          [] c = "xya" -> "XYA"
          [] c = "ya" -> "YA"
          [] c = "xyu" -> "XYU"
          [] c = "yu" -> "YU"
          [] c = "xyo" -> "XYO"
          [] c = "yo" -> "YO"
          [] c = "ra" -> "RA"
          [] c = "ri" -> "RI"
          [] c = "ru" -> "RU"
          [] c = "re" -> "RE"
          [] c = "ro" -> "RO"
          [] c = "xwa" -> "XWA"
          [] c = "wa" -> "WA"
          [] c = "wi" -> "WI"
          [] c = "we" -> "WE"
          [] c = "wo" -> "WO"
          [] c = "nn" -> "NN"
          [] c = "vu" -> "VU"]

HIRAGANA_CONVERSION_DICT ==
    ("ka" :> <<"ga">>)
    @@ ("ki" :> <<"gi">>)
    @@ ("ku" :> <<"gu">>)
    @@ ("ke" :> <<"ge">>)
    @@ ("ko" :> <<"go">>)
    @@ ("sa" :> <<"za">>)
    @@ ("si" :> <<"zi">>)
    @@ ("su" :> <<"zu">>)
    @@ ("se" :> <<"ze">>)
    @@ ("so" :> <<"zo">>)
    @@ ("ta" :> <<"da">>)
    @@ ("ti" :> <<"di">>)
    @@ ("tu" :> <<"du">>)
    @@ ("te" :> <<"de">>)
    @@ ("to" :> <<"do">>)
    @@ ("ha" :> <<"ba", "pa">>)
    @@ ("hi" :> <<"bi", "pi">>)
    @@ ("hu" :> <<"bu", "pu">>)
    @@ ("he" :> <<"be", "pe">>)
    @@ ("ho" :> <<"bo", "po">>)

SMALL_TSU_POSSIBLE_HIRAGANA ==
    <<"tu", "ti", "ku", "ki", "u", "ri", "nn">>

ALL_MORA ==
    <<
     <<"ku", "xi">>, <<"ki", "xya">>, <<"ki", "xyu">>, <<"ki", "xe">>, <<"ki", "xyo">>,
     <<"gu", "xi">>, <<"go">>, <<"gi", "xya">>, <<"gi", "xyu">>, <<"gi", "xe">>,
     <<"gi", "xyo">>, <<"su", "xi">>, <<"si", "xya">>, <<"si", "xyu">>, <<"si", "xe">>,
     <<"si", "xyo">>, <<"zu", "xi">>, <<"zi", "xya">>, <<"zi", "xyu">>, <<"zi", "xe">>,
     <<"zi", "xyo">>, <<"te", "xi">>, <<"to", "xu">>, <<"ti", "xya">>, <<"ti", "xyu">>,
     <<"ti", "xe">>, <<"ti", "xyo">>, <<"de", "xi">>, <<"do", "xu">>, <<"di", "xya">>,
     <<"de", "xyu">>, <<"di", "xyu">>, <<"di", "xe">>, <<"di", "xyo">>, <<"tu", "xa">>,
     <<"tu", "xi">>, <<"tu", "xe">>, <<"tu", "xo">>, <<"du", "xa">>, <<"du", "xi">>,
     <<"du", "xe">>, <<"du", "xo">>, <<"hi", "xi">>, <<"ho", "xu">>, <<"hi", "xya">>,
     <<"hi", "xyu">>, <<"hi", "xe">>, <<"hi", "xyo">>, <<"bi", "xi">>, <<"bo">>,
     <<"bi", "xya">>, <<"bi", "xyu">>, <<"bi", "xe">>, <<"bi", "xyo">>, <<"pi", "xi">>,
     <<"pi", "xya">>, <<"pi", "xyu">>, <<"pi", "xe">>, <<"pi", "xyo">>, <<"hu", "xa">>,
     <<"hu", "xi">>, <<"hu", "xe">>, <<"hu", "xo">>, <<"vu", "xa">>, <<"vu", "xi">>,
     <<"vu">>, <<"vu", "xe">>, <<"vu", "xo">>, <<"nu", "xi">>, <<"no">>,
     <<"ni", "xya">>, <<"ni", "xyu">>, <<"ni", "xe">>, <<"ni", "xyo">>, <<"mu", "xi">>,
     <<"mi", "xya">>, <<"mi", "xyu">>, <<"mi", "xe">>, <<"mi", "xyo">>, <<"ru", "xi">>,
     <<"ri", "xya">>, <<"ri", "xyu">>, <<"ri", "xe">>, <<"ri", "xyo">>, <<"i", "xe">>,
     <<"ka">>, <<"ku">>, <<"ke">>, <<"ko">>, <<"ki">>, <<"ga">>, <<"gu">>, <<"ge">>,
     <<"go">>, <<"gi">>, <<"sa">>, <<"su">>, <<"se">>, <<"so">>, <<"si">>, <<"za">>,
     <<"zu">>, <<"du">>, <<"ze">>, <<"zo">>, <<"zi">>, <<"di">>, <<"ta">>,
     <<"to", "xu">>, <<"te">>, <<"to">>, <<"ti">>, <<"da">>, <<"de">>, <<"do">>,
     <<"di">>, <<"tu">>, <<"du">>, <<"ha">>, <<"he">>, <<"ho">>, <<"hi">>, <<"ba">>,
     <<"bu">>, <<"be">>, <<"bo">>, <<"bo">>, <<"bi">>, <<"pa">>, <<"pu">>, <<"be">>,
     <<"po">>, <<"pi">>, <<"hu">>, <<"vu", "xi">>, <<"vu">>, <<"na">>, <<"nu">>,
     <<"ne">>, <<"no">>, <<"ni">>, <<"ma">>, <<"mu">>, <<"me">>, <<"mo">>, <<"mi">>,
     <<"ra">>, <<"ru">>, <<"re">>, <<"ro">>, <<"ri">>, <<"a">>, <<"i">>, <<"u">>,
     <<"e">>, <<"o">>, <<"ya">>, <<"yu">>, <<"yo">>, <<"wa">>, <<"wi">>, <<"we">>,
     <<"wo">>
    >>

VERB_NOUN_OKURIGANA ==
    (<<"ru">> :> <<"ri">>)
    @@ (<<"mu">> :> <<"mi">>)
    @@ (<<"nu">> :> <<"ni">>)
    @@ (<<"gu">> :> <<"gi">>)
    @@ (<<"bu">> :> <<"bi">>)
    @@ (<<"me", "ru">> :> <<"me">>)

READING_FIRST_KANA_TO_POSSIBLE_INFLECTED_FIRST_KANA ==
    (<<"u">> :> <<"xtu", "i", "wa", "o", "e">>)
    @@ (<<"ku">> :> <<"ki", "ka", "ke", "ko">>)
    @@ (<<"gu">> :> <<"gi", "ga", "ge", "go">>)
    @@ (<<"su">> :> <<"si", "sa", "se", "so">>)
    @@ (<<"tu">> :> <<"xtu", "ti", "ta", "te", "to">>)
    @@ (<<"nu">> :> <<"ni", "na", "ne", "no">>)
    @@ (<<"bu">> :> <<"bi", "ba", "be", "bo">>)
    @@ (<<"mu">> :> <<"mi", "ma", "me", "mo">>)
    @@ (<<"ru">> :> <<"ri", "ra", "re", "ro">>)
    @@ (<<"me", "ru">> :> <<"me">>)

OTHER_FIRST_KANA ==
    ("be" :> "ru")
    @@ ("ka" :> "su")
    @@ ("ge" :> "ru")
    @@ ("ta" :> "ru")

NOT_FIRST_KANA ==
    {"wo", "po", "pu", "pi", "pa", "he", "pe", "a", "o", "ya", "yu", "yo", "ro", "hu", "wi"}

VERB_ALL_OKURIGANA ==
    {
     <<"ma", "su">>, <<"ma", "si", "ta">>, <<"ma", "se", "nn">>,
     <<"ma", "se", "nn", "de", "si", "ta">>, <<"xtu", "ta">>, <<"i", "ta">>,
     <<"nn", "da">>, <<"ta">>, <<"na", "i">>, <<"na", "ka", "xtu", "ta">>, <<"te">>,
     <<"ma", "si", "ta", "ra">>, <<"ma", "se", "nn", "de", "si", "ta", "ra">>,
     <<"ta", "ra">>, <<"na", "ka", "xtu", "ta", "ra">>, <<"ma", "si", "xyo", "u">>,
     <<"ma", "se", "nn", "ka">>, <<"yo", "u">>, <<"ma", "i">>, <<"re", "ru">>,
     <<"re", "na", "i">>, <<"re", "ta">>, <<"re", "na", "ka", "xtu", "ta">>,
     <<"re", "ma", "su">>, <<"re", "ma", "se", "nn">>, <<"ru">>, <<"ro">>,
     <<"ro", "u">>, <<"ru", "na">>, <<"na", "sa", "i">>, <<"na">>,
     <<"sa", "se", "ru">>, <<"sa", "se", "na", "i">>, <<"sa", "se", "ta">>,
     <<"sa", "se", "na", "ka", "xtu", "ta">>, <<"sa", "se", "ma", "su">>,
     <<"sa", "se", "ma", "se", "nn">>, <<"se", "ru">>, <<"se", "na", "i">>,
     <<"se", "ta">>, <<"se", "na", "ka", "xtu", "ta">>, <<"se", "ma", "su">>,
     <<"se", "ma", "se", "nn">>, <<"ra", "re", "ru">>, <<"ra", "re", "na", "i">>,
     <<"ra", "re", "ta">>, <<"ra", "re", "ma", "su">>,
     <<"ra", "re", "na", "ka", "xtu", "ta">>, <<"ra", "re", "ma", "se", "nn">>,
     <<"e", "ba">>, <<"re", "ba">>, <<"e", "na", "ke", "re", "ba">>,
     <<"e", "ta", "ra">>, <<"e", "na", "ka", "xtu", "ta", "ra">>, <<"te", "i", "ru">>,
     <<"te", "i", "na", "i">>, <<"te", "i", "ta">>,
     <<"te", "i", "na", "ka", "xtu", "ta">>, <<"te", "i", "ma", "su">>,
     <<"te", "i", "ma", "se", "nn">>, <<"te", "ru">>, <<"te", "na", "i">>,
     <<"te", "ta">>, <<"te", "na", "ka", "xtu", "ta">>, <<"te", "ma", "su">>,
     <<"te", "ma", "se", "nn">>, <<"ki", "ru">>
    }

IRREGULAR_VERB_INFLECTIONS_rai ==
    {<<"ta", "su">>, <<"ta", "ru">>, <<"ta", "ri">>, <<"na", "ke", "re", "ba">>, <<"na", "ku", "te">>, <<"ki">>}

ADJECTIVE_INFLECTIONS ==
    {
     <<"i">>, <<"ku">>, <<"ka", "xtu", "ta">>, <<"ku", "na", "i">>,
     <<"ku", "na", "ka", "xtu", "ta">>, <<"ku", "te">>, <<"ke", "re", "ba">>,
     <<"ke", "re", "do">>, <<"ka", "ro", "u">>, <<"ka", "ro", "u", "ka">>,
     <<"ka", "re">>, <<"ka", "re", "ba">>, <<"ka", "re", "do">>
    }

(***************************************************************************)
(* Character classes                                                       *)
(***************************************************************************)
\* The CJK ideographs that occur in the texts of this model.
Kanji == {"K_a", "K_b", "K_c", "K_rai", "K_hi", "K_zou"}

\* \d
Digits == {"2"}

\* The character class of KANJI_RE: digits, the repeater mark and CJK.
KANJI_RE == Digits \cup {"noma"} \cup Kanji

\* The characters of s that table maps are mapped, the others are kept.
Convert(s, table) ==
    [i \in 1..Len(s) |-> IF s[i] \in DOMAIN table THEN table[s[i]] ELSE s[i]]

Range(table) == {table[c] : c \in DOMAIN table}

Inverse(table) == [k \in Range(table) |-> CHOOSE c \in DOMAIN table : table[c] = k]

\* kana_conv.to_katakana: hiragana are shifted to katakana, anything else
\* is kept.
to_katakana(s) == Convert(s, HiraganaToKatakana)

KatakanaToHiragana == Inverse(HiraganaToKatakana)

\* kana_conv.to_hiragana: katakana are shifted to hiragana, anything else
\* is kept.
to_hiragana(s) == Convert(s, KatakanaToHiragana)

(***************************************************************************)
(* Python str operations                                                   *)
(***************************************************************************)
Min(S) == CHOOSE x \in S : \A y \in S : x <= y

Max(S) == CHOOSE x \in S : \A y \in S : x >= y

\* s[a:] for a >= 0
From(s, a) == SubSeq(s, a + 1, Len(s))

\* The 1-based positions at which sub occurs in s.
Occurrences(sub, s) ==
    {i \in 1..(Len(s) - Len(sub) + 1) : SubSeq(s, i, i + Len(sub) - 1) = sub}

\* sub in s
Contains(sub, s) == Occurrences(sub, s) # {}

\* s.startswith(p)
StartsWith(s, p) == Len(p) <= Len(s) /\ SubSeq(s, 1, Len(p)) = p

\* s.replace(old, new) for a non-empty old
RECURSIVE Replace(_, _, _)
Replace(s, old, new) ==
    IF Len(s) < Len(old) THEN s
    ELSE IF StartsWith(s, old) THEN new \o Replace(From(s, Len(old)), old, new)
    ELSE <<Head(s)>> \o Replace(Tail(s), old, new)

\* s.replace(old, new, 1) for a non-empty old
ReplaceFirst(s, old, new) ==
    IF Contains(old, s)
    THEN LET i == Min(Occurrences(old, s))
         IN  SubSeq(s, 1, i - 1) \o new \o From(s, i + Len(old) - 1)
    ELSE s

\* s.split(sep) for a one-character sep: the list of the fields
RECURSIVE Split(_, _)
Split(s, sep) ==
    IF \A i \in 1..Len(s) : s[i] # sep THEN <<s>>
    ELSE LET i == Min({j \in 1..Len(s) : s[j] = sep})
         IN  <<SubSeq(s, 1, i - 1)>> \o Split(From(s, i), sep)

\* s.strip(): the space is the only whitespace of the model
RECURSIVE Strip(_)
Strip(s) ==
    IF s = <<>> THEN s
    ELSE IF Head(s) = " " THEN Strip(Tail(s))
    ELSE IF s[Len(s)] = " " THEN Strip(SubSeq(s, 1, Len(s) - 1))
    ELSE s

\* list.sort(key=len, reverse=True): stable, longest first
RECURSIVE SortByLenReverse(_)
SortByLenReverse(l) ==
    IF l = <<>> THEN <<>>
    ELSE LET longest == Max({Len(l[i]) : i \in 1..Len(l)})
             first == Min({i \in 1..Len(l) : Len(l[i]) = longest})
         IN  <<l[first]>> \o SortByLenReverse(SubSeq(l, 1, first - 1) \o From(l, first))

\* re.sub(r"\(.*?\)", "", s)
RECURSIVE RemoveParentheses(_)
RemoveParentheses(s) ==
    IF s = <<>> THEN s
    ELSE IF Head(s) = "(" /\ \E j \in 2..Len(s) : s[j] = ")"
    THEN RemoveParentheses(From(s, Min({j \in 2..Len(s) : s[j] = ")"})))
    ELSE <<Head(s)>> \o RemoveParentheses(Tail(s))

(***************************************************************************)
(* Emphasis markers and the anchored patterns                              *)
(***************************************************************************)
\* "<b>"
B_OPEN == <<"<", "_b", ">">>

\* "</b>"
B_CLOSE == <<"<", "/", "_b", ">">>

\* The matches re.sub finds in s for (.*)(text)(.*?)$, each as its three
\* groups: the greedy first group puts the second on the last occurrence
\* of text; an empty text matches once more at the very end of a non-empty s.
re_match_from_right(text, s) ==
    IF ~Contains(text, s) THEN <<>>
    ELSE LET i == Max(Occurrences(text, s))
         IN  <<<<SubSeq(s, 1, i - 1), text, From(s, i + Len(text) - 1)>>>>
             \o (IF text = <<>> /\ s # <<>> THEN <<<<(<<>>), <<>>, <<>>>>>> ELSE <<>>)

\* The matches re.sub finds in s for ^(.*?)(text)(.*)$: the lazy first
\* group puts the second on the first occurrence of text.
re_match_from_left(text, s) ==
    IF ~Contains(text, s) THEN <<>>
    ELSE LET i == Min(Occurrences(text, s))
         IN  <<<<SubSeq(s, 1, i - 1), text, From(s, i + Len(text) - 1)>>>>

\* The matches re.sub finds in s for ^(.*?)(text)(.*?)$: the first
\* occurrence of text again, the last group being forced to the end by $.
re_match_from_middle(text, s) ==
    IF ~Contains(text, s) THEN <<>>
    ELSE LET i == Min(Occurrences(text, s))
         IN  <<<<SubSeq(s, 1, i - 1), text, From(s, i + Len(text) - 1)>>>>

\* onyomi_replacer with group 2 left in the script of the furigana.
onyomi_replacer_without_katakana(match) ==
    match[1] \o B_OPEN \o match[2] \o B_CLOSE \o match[3]

onyomi_replacer(match) ==
    match[1] \o B_OPEN \o to_katakana(match[2]) \o B_CLOSE \o match[3]

kunyomi_replacer(match) ==
    match[1] \o B_OPEN \o match[2] \o B_CLOSE \o match[3]

\* re.sub(reg, replacer, s) for the three patterns above, whose matches
\* start at the beginning of s and run to its end.
RECURSIVE ConcatAll(_)
ConcatAll(l) == IF l = <<>> THEN <<>> ELSE Head(l) \o ConcatAll(Tail(l))

LEFT == "left"

RIGHT == "right"

MIDDLE == "middle"

WHOLE == "whole"

\* The patterns' matches for the edge, as replace_onyomi_match and
\* replace_kunyomi_match select them.
MatchesForEdge(text, edge, furigana) ==
    IF edge = RIGHT THEN re_match_from_right(text, furigana)
    ELSE IF edge = LEFT THEN re_match_from_left(text, furigana)
    ELSE re_match_from_middle(text, furigana)

\* re.sub(reg, onyomi_replacer, furigana) for the matches of reg
OnyomiSub(furigana, matches) ==
    IF matches = <<>> THEN furigana
    ELSE ConcatAll([i \in 1..Len(matches) |-> onyomi_replacer(matches[i])])

replace_onyomi_match(furigana, onyomi_that_matched, edge) ==
    OnyomiSub(furigana, MatchesForEdge(onyomi_that_matched, edge, furigana))

\* re.sub(reg, kunyomi_replacer, furigana) for the matches of reg
KunyomiSub(furigana, matches) ==
    IF matches = <<>> THEN furigana
    ELSE ConcatAll([i \in 1..Len(matches) |-> kunyomi_replacer(matches[i])])

replace_kunyomi_match(furigana, kunyomi_that_matched, edge) ==
    KunyomiSub(furigana, MatchesForEdge(kunyomi_that_matched, edge, furigana))

\* get_target_furigana_section that keeps the last character for left.
get_target_furigana_section_left_keeps_last(furigana, edge) ==
    IF edge = WHOLE THEN [ok |-> TRUE, section |-> furigana]
    ELSE IF edge = LEFT THEN [ok |-> TRUE, section |-> furigana]
    ELSE IF edge = RIGHT THEN [ok |-> TRUE, section |-> From(furigana, 1)]
    ELSE IF edge = MIDDLE THEN [ok |-> TRUE, section |-> SubSeq(furigana, 2, Len(furigana) - 1)]
    ELSE [ok |-> FALSE, section |-> <<>>]

\* furigana[:-1], furigana[1:], furigana[1:-1] or furigana; for any other
\* edge a message is shown and None returned.
get_target_furigana_section(furigana, edge) ==
    IF edge = WHOLE THEN [ok |-> TRUE, section |-> furigana]
    ELSE IF edge = LEFT THEN [ok |-> TRUE, section |-> SubSeq(furigana, 1, Len(furigana) - 1)]
    ELSE IF edge = RIGHT THEN [ok |-> TRUE, section |-> From(furigana, 1)]
    ELSE IF edge = MIDDLE THEN [ok |-> TRUE, section |-> SubSeq(furigana, 2, Len(furigana) - 1)]
    ELSE [ok |-> FALSE, section |-> <<>>]

(***************************************************************************)
(* The reading resolver                                                    *)
(***************************************************************************)
\* A MainResult.  text and type are the fields of the source; matched (the
\* string that was found in the furigana section), reading (the normalised
\* reading it came from) and how record the branch that returned, and
\* raised names an exception that escapes instead of a return.
MainResult(text, type, matched, reading, how) ==
    [text |-> text, type |-> type, matched |-> matched, reading |-> reading,
     how |-> how, raised |-> ""]

NoResult == MainResult(<<>>, "none", <<>>, <<>>, "")

NoConversion == [found |-> FALSE, text |-> <<>>]

\* reading.replace(reading[0], kana, 1)
ConvertedTo(reading, kana) == ReplaceFirst(reading, <<reading[1]>>, <<kana>>)

\* for kana in alternatives: the first converted reading, in the order of
\* the list, that occurs in the section
FirstConverted(reading, section, alternatives) ==
    LET hits == {k \in 1..Len(alternatives) :
                    Contains(ConvertedTo(reading, alternatives[k]), section)}
    IN  IF hits = {} THEN NoConversion
        ELSE [found |-> TRUE, text |-> ConvertedTo(reading, alternatives[Min(hits)])]

\* if reading[0] in HIRAGANA_CONVERSION_DICT, for a reading of at least
\* shortest kana: check_onyomi_readings leaves out the reading of one kana
ConvertedFirstKana(reading, section, table, shortest) ==
    IF Len(reading) < shortest THEN NoConversion
    ELSE IF reading[1] \notin DOMAIN table THEN NoConversion
    ELSE FirstConverted(reading, section, table[reading[1]])

\* for tsu_kana in SMALL_TSU_POSSIBLE_HIRAGANA: reading[:-1] + small tsu
\* when the last kana of the reading is in the list
ConvertedLastKana(reading, section) ==
    IF (\E k \in 1..Len(SMALL_TSU_POSSIBLE_HIRAGANA) :
            reading[Len(reading)] = SMALL_TSU_POSSIBLE_HIRAGANA[k])
       /\ Contains(SubSeq(reading, 1, Len(reading) - 1) \o <<"xtu">>, section)
    THEN [found |-> TRUE, text |-> SubSeq(reading, 1, Len(reading) - 1) \o <<"xtu">>]
    ELSE NoConversion

\* The three tests of one pass of either loop, in their order: the reading
\* itself, its first kana converted, its last kana turned into a small tsu.
\* The empty reading occurs in every section, so the tests that index the
\* reading are not reached with it.
FirstVariant(reading, direct, first, last) ==
    IF direct THEN [how |-> "direct", text |-> reading]
    ELSE IF first.found THEN [how |-> "first_kana", text |-> first.text]
    ELSE IF last.found THEN [how |-> "small_tsu", text |-> last.text]
    ELSE [how |-> "", text |-> <<>>]

VariantInSection(reading, section, shortest) ==
    FirstVariant(reading, Contains(reading, section),
                 ConvertedFirstKana(reading, section, HIRAGANA_CONVERSION_DICT, shortest),
                 ConvertedLastKana(reading, section))

\* The loop of check_onyomi_readings over the sorted readings: OnyomiLoop
\* takes the next reading, OnyomiPass is the body of the loop for it.
RECURSIVE OnyomiLoop(_, _, _, _, _)
OnyomiReturn(onyomi_reading, variant, onyomi_readings, furigana, target_furigana_section, edge, match_only) ==
    IF variant.how # ""
    THEN MainResult(IF match_only THEN <<>>
                    ELSE replace_onyomi_match(furigana, variant.text, edge),
                    "onyomi", variant.text, onyomi_reading, variant.how)
    ELSE OnyomiLoop(Tail(onyomi_readings), furigana, target_furigana_section, edge,
                    match_only)

OnyomiPass(onyomi_reading, onyomi_readings, furigana, target_furigana_section, edge, match_only) ==
    OnyomiReturn(onyomi_reading,
                 VariantInSection(onyomi_reading, target_furigana_section, 2),
                 onyomi_readings, furigana, target_furigana_section, edge, match_only)

OnyomiLoop(onyomi_readings, furigana, target_furigana_section, edge, match_only) ==
    IF onyomi_readings = <<>> THEN NoResult
    ELSE OnyomiPass(to_hiragana(Strip(RemoveParentheses(Head(onyomi_readings)))),
                    onyomi_readings, furigana, target_furigana_section, edge, match_only)

check_onyomi_readings(onyomi, furigana, target_furigana_section, edge, match_only) ==
    OnyomiLoop(SortByLenReverse(Split(onyomi, ",")), furigana,
               target_furigana_section, edge, match_only)

\* The loop of check_kunyomi_readings over the readings in list order:
\* KunyomiLoop takes the next reading and splits it at the dots,
\* KunyomiPass is the body of the loop for it.
RECURSIVE KunyomiLoop(_, _, _, _, _)
KunyomiReturn(kunyomi_stem, variant, kunyomi_readings, furigana, target_furigana_section, edge, match_only) ==
    IF variant.how # ""
    THEN MainResult(IF match_only THEN <<>>
                    ELSE replace_kunyomi_match(furigana, variant.text, edge),
                    "kunyomi", variant.text, kunyomi_stem, variant.how)
    ELSE KunyomiLoop(Tail(kunyomi_readings), furigana, target_furigana_section, edge,
                     match_only)

KunyomiPass(parts, kunyomi_readings, furigana, target_furigana_section, edge, match_only) ==
    IF Len(parts) > 2
    THEN \* ValueError of the unpacking: logged, the furigana is returned
         MainResult(furigana, "kunyomi", <<>>, Head(kunyomi_readings), "multiple_dots")
    ELSE KunyomiReturn(parts[1],
                       VariantInSection(parts[1], target_furigana_section, 1),
                       kunyomi_readings, furigana, target_furigana_section, edge,
                       match_only)

KunyomiLoop(kunyomi_readings, furigana, target_furigana_section, edge, match_only) ==
    IF kunyomi_readings = <<>> THEN NoResult
    ELSE KunyomiPass(Split(Head(kunyomi_readings), "."), kunyomi_readings, furigana,
                     target_furigana_section, edge, match_only)

check_kunyomi_readings(kunyomi, furigana, target_furigana_section, edge, match_only) ==
    KunyomiLoop(Split(kunyomi, ","), furigana, target_furigana_section, edge, match_only)

(***************************************************************************)
(* The okurigana inflection matcher                                        *)
(***************************************************************************)
\* VERB_ALL_OKURIGANA and ADJECTIVE_INFLECTIONS are Python sets of str and
\* VERB_INFLECTIONS_REC / ADJECTIVE_INFLECTIONS_REC join them in iteration
\* order, which str hash randomisation fixes anew in every process.  The
\* alternation takes the first entry, in that order, that is a prefix of its
\* target.  The entries that are prefixes of one target have pairwise
\* different lengths, so the order of a process is represented by the length
\* it puts first (entries of that length come first, then the shorter
\* before the longer): every entry of such a chain is first for some order.
LongestEntry(table) == Max({Len(e) : e \in table})

SetOrders ==
    [verb : 1..LongestEntry(VERB_ALL_OKURIGANA), adj : 1..LongestEntry(ADJECTIVE_INFLECTIONS)]

PrefixEntries(table, target) == {e \in table : StartsWith(target, e)}

\* The first alternative of '|'.join(table) that matches at the start of
\* target, for a non-empty set of candidates.
FirstInIterationOrder(candidates, first_length) ==
    IF \E e \in candidates : Len(e) = first_length
    THEN CHOOSE e \in candidates : Len(e) = first_length
    ELSE CHOOSE e \in candidates : \A f \in candidates : Len(e) <= Len(f)

\* A return of check_okurigana_for_kunyomi_inflection; verb_order and
\* adj_order tell whether the iteration order of a table decided it.
Inflection(okurigana_to_highlight, rest_kana) ==
    [okurigana_to_highlight |-> okurigana_to_highlight, rest_kana |-> rest_kana,
     verb_order |-> FALSE, adj_order |-> FALSE]

\* The return after a match with the whole target as the rest.
InflectionWith_rest_is_target(start, ending, target, verb_by_order, adj_by_order) ==
    [okurigana_to_highlight |-> start \o ending, rest_kana |-> target,
     verb_order |-> verb_by_order, adj_order |-> adj_by_order]

\* The return after a match of one of the patterns: start + match.group(1),
\* match.group(2); by_order tells whether the iteration order decided
\* which ending group 1 is.
InflectionWith(start, ending, target, verb_by_order, adj_by_order) ==
    [okurigana_to_highlight |-> start \o ending, rest_kana |-> From(target, Len(ending)),
     verb_order |-> verb_by_order, adj_order |-> adj_by_order]

\* IRREGULAR_VERB_INFLECTIONS_REC[kanji].match(target), VERB_INFLECTIONS_REC
\* .match(target) and the return after them, for the endings of the two
\* tables that target starts with
VerbInflection(start, target, okurigana, irregular, regular, order) ==
    IF irregular # {}
    THEN InflectionWith(start, CHOOSE e \in irregular : \A f \in irregular : Len(e) <= Len(f),
                        target, FALSE, FALSE)
    ELSE IF regular # {}
    THEN InflectionWith(start, FirstInIterationOrder(regular, order.verb), target,
                        Cardinality(regular) > 1, FALSE)
    ELSE Inflection(<<>>, okurigana)

\* ADJECTIVE_INFLECTIONS_REC.match(target) and the return after it
AdjectiveInflection(start, target, okurigana, endings, order) ==
    IF endings # {}
    THEN InflectionWith(start, FirstInIterationOrder(endings, order.adj), target,
                        FALSE, Cardinality(endings) > 1)
    ELSE Inflection(<<>>, okurigana)

\* start and okurigana_inflection_target: the first kana of the okurigana
\* is taken off when it is one of kana
InflectionTarget(okurigana, kana) ==
    IF okurigana[1] \in kana
    THEN [start |-> <<okurigana[1]>>, target |-> Tail(okurigana)]
    ELSE [start |-> <<>>, target |-> okurigana]

\* The branch for a verb: inflection_kana_key is a key of
\* READING_FIRST_KANA_TO_POSSIBLE_INFLECTED_FIRST_KANA.
VerbOkurigana(okurigana, inflection_kana_key, split, kanji_to_highlight, order) ==
    IF okurigana[1] = inflection_kana_key
    THEN Inflection(<<okurigana[1]>>, Tail(okurigana))
    ELSE IF Len(okurigana) > 1 /\ okurigana[1] \in DOMAIN OTHER_FIRST_KANA
            /\ okurigana[2] = OTHER_FIRST_KANA[okurigana[1]]
    THEN Inflection(SubSeq(okurigana, 1, 2), From(okurigana, 2))
    ELSE VerbInflection(split.start, split.target, okurigana,
                        IF kanji_to_highlight = "K_rai"
                        THEN PrefixEntries(IRREGULAR_VERB_INFLECTIONS_rai, split.target)
                        ELSE {},
                        PrefixEntries(VERB_ALL_OKURIGANA, split.target), order)

\* The part of check_okurigana_for_kunyomi_inflection after the tests of
\* the okurigana as a whole, for the inflection_kana_key it has worked out.
InflectedOkurigana(kunyomi_okurigana, okurigana, inflection_kana_key, first_kana, kanji_to_highlight, order) ==
    IF <<inflection_kana_key>> \in DOMAIN first_kana
    THEN VerbOkurigana(okurigana, inflection_kana_key,
                       InflectionTarget(okurigana,
                                        Range(first_kana[<<inflection_kana_key>>])),
                       kanji_to_highlight, order)
    ELSE IF kunyomi_okurigana[Len(kunyomi_okurigana)] = "i"
    THEN AdjectiveInflection(InflectionTarget(okurigana, {"si", "ki"}).start,
                             InflectionTarget(okurigana, {"si", "ki"}).target, okurigana,
                             PrefixEntries(ADJECTIVE_INFLECTIONS,
                                           InflectionTarget(okurigana, {"si", "ki"}).target),
                             order)
    ELSE Inflection(<<>>, okurigana)

\* check_okurigana_for_kunyomi_inflection after the test of the edge,
\* without the test of the first kana against NOT_FIRST_KANA.
OkuriganaAtRightOrWhole_without_not_first_kana(kunyomi_okurigana, word_data, highlight_args, order) ==
    IF kunyomi_okurigana = <<>> \/ word_data.okurigana = <<>>
    THEN Inflection(<<>>, word_data.okurigana)
    ELSE IF kunyomi_okurigana = word_data.okurigana
    THEN Inflection(word_data.okurigana, <<>>)
    ELSE IF kunyomi_okurigana \in DOMAIN VERB_NOUN_OKURIGANA
            /\ word_data.okurigana = VERB_NOUN_OKURIGANA[kunyomi_okurigana]
    THEN Inflection(word_data.okurigana, <<>>)
    ELSE InflectedOkurigana(
             kunyomi_okurigana, word_data.okurigana,
             IF kunyomi_okurigana[1] \in DOMAIN OTHER_FIRST_KANA
             THEN OTHER_FIRST_KANA[kunyomi_okurigana[1]] ELSE kunyomi_okurigana[1],
             READING_FIRST_KANA_TO_POSSIBLE_INFLECTED_FIRST_KANA,
             highlight_args.kanji_to_highlight, order)

\* check_okurigana_for_kunyomi_inflection after the test of the edge
OkuriganaAtRightOrWhole(kunyomi_okurigana, word_data, highlight_args, order) ==
    IF kunyomi_okurigana = <<>> \/ word_data.okurigana = <<>>
    THEN Inflection(<<>>, word_data.okurigana)
    ELSE IF kunyomi_okurigana = word_data.okurigana
    THEN Inflection(word_data.okurigana, <<>>)
    ELSE IF word_data.okurigana[1] \in NOT_FIRST_KANA
    THEN Inflection(<<>>, word_data.okurigana)
    ELSE IF kunyomi_okurigana \in DOMAIN VERB_NOUN_OKURIGANA
            /\ word_data.okurigana = VERB_NOUN_OKURIGANA[kunyomi_okurigana]
    THEN Inflection(word_data.okurigana, <<>>)
    ELSE InflectedOkurigana(
             kunyomi_okurigana, word_data.okurigana,
             IF kunyomi_okurigana[1] \in DOMAIN OTHER_FIRST_KANA
             THEN OTHER_FIRST_KANA[kunyomi_okurigana[1]] ELSE kunyomi_okurigana[1],
             READING_FIRST_KANA_TO_POSSIBLE_INFLECTED_FIRST_KANA,
             highlight_args.kanji_to_highlight, order)

\* check_okurigana_for_kunyomi_inflection without the test of the edge.
check_okurigana_for_kunyomi_inflection_at_every_edge(kunyomi_okurigana, word_data, highlight_args, order) ==
    OkuriganaAtRightOrWhole(kunyomi_okurigana, word_data, highlight_args, order)

check_okurigana_for_kunyomi_inflection(kunyomi_okurigana, word_data, highlight_args, order) ==
    IF word_data.edge \notin {RIGHT, WHOLE} THEN Inflection(<<>>, word_data.okurigana)
    ELSE OkuriganaAtRightOrWhole(kunyomi_okurigana, word_data, highlight_args, order)

(***************************************************************************)
(* The jukujigun fallback                                                  *)
(***************************************************************************)
\* The rest of reg.findall(s) after the match of the alternatives hits at
\* the start of s: the first of them in the order of the pattern; a
\* character that starts none is skipped.
RECURSIVE FindAll(_, _)
FindAllFrom(s, alternatives, hits) ==
    IF hits = {} THEN FindAll(Tail(s), alternatives)
    ELSE <<alternatives[Min(hits)]>>
         \o FindAll(From(s, Len(alternatives[Min(hits)])), alternatives)

\* re.compile("(a|b|...)").findall(s) for the list of alternatives
FindAll(s, alternatives) ==
    IF s = <<>> THEN <<>>
    ELSE FindAllFrom(s, alternatives,
                     {k \in 1..Len(alternatives) : StartsWith(s, alternatives[k])})

\* ALL_MORA_REC.findall(s)
findall_ALL_MORA(s) == FindAll(s, ALL_MORA)

\* The loop with the remainder test off by one (remainder > 1).
RECURSIVE JukujigunLoop_last_remainder_lost(_, _, _, _, _)
JukujigunLoop_last_remainder_lost(kanji_index, cur_mora_index, remainder, new_furigana, c) ==
    IF kanji_index >= c.kanji_count THEN new_furigana
    ELSE
    LET cur_mora_range_max ==
            cur_mora_index + c.mora_per_kanji + (IF remainder > 1 THEN 1 ELSE 0)
        opened == IF kanji_index = c.kanji_pos THEN new_furigana \o B_OPEN
                  ELSE IF kanji_index = c.kanji_pos + 1 THEN new_furigana \o B_CLOSE
                  ELSE new_furigana
        filled == opened \o ConcatAll(SubSeq(c.mora_list, cur_mora_index + 1, cur_mora_range_max))
        closed == IF kanji_index = c.kanji_pos /\ kanji_index = c.kanji_count - 1
                  THEN filled \o B_CLOSE ELSE filled
    IN  JukujigunLoop_last_remainder_lost(kanji_index + 1, cur_mora_range_max,
                      IF remainder > 0 THEN remainder - 1 ELSE remainder, closed, c)

\* for kanji_index in range(kanji_count) of handle_jukujigun_case
RECURSIVE JukujigunLoop(_, _, _, _, _)
JukujigunLoop(kanji_index, cur_mora_index, remainder, new_furigana, c) ==
    IF kanji_index >= c.kanji_count THEN new_furigana
    ELSE
    LET cur_mora_range_max ==
            cur_mora_index + c.mora_per_kanji + (IF remainder > 0 THEN 1 ELSE 0)
        opened == IF kanji_index = c.kanji_pos THEN new_furigana \o B_OPEN
                  ELSE IF kanji_index = c.kanji_pos + 1 THEN new_furigana \o B_CLOSE
                  ELSE new_furigana
        filled == opened \o ConcatAll(SubSeq(c.mora_list, cur_mora_index + 1, cur_mora_range_max))
        closed == IF kanji_index = c.kanji_pos /\ kanji_index = c.kanji_count - 1
                  THEN filled \o B_CLOSE ELSE filled
    IN  JukujigunLoop(kanji_index + 1, cur_mora_range_max,
                      IF remainder > 0 THEN remainder - 1 ELSE remainder, closed, c)

\* handle_jukujigun_case for the mora_list of the furigana
JukujigunResult(word_data, mora_list) ==
    MainResult(JukujigunLoop(0, 0, Len(mora_list) % word_data.kanji_count, <<>>,
                             [kanji_count |-> word_data.kanji_count,
                              kanji_pos |-> word_data.kanji_pos,
                              mora_list |-> mora_list,
                              mora_per_kanji |-> Len(mora_list) \div word_data.kanji_count]),
               "kunyomi", <<>>, <<>>, "jukujigun")

\* A fallback that returns the furigana as it is.
handle_jukujigun_case_unmarked(word_data) ==
    MainResult(word_data.furigana, "kunyomi", <<>>, <<>>, "jukujigun")

handle_jukujigun_case(word_data) ==
    JukujigunResult(word_data, findall_ALL_MORA(word_data.furigana))

(***************************************************************************)
(* process_readings and its two callers                                    *)
(***************************************************************************)
NoEdgeMessage == "process_readings() called with no edge specified"

\* The flags of so_far stay set in found.
KeepOrderFlags(found, so_far) ==
    [found EXCEPT !.verb_order = @ \/ so_far.verb_order,
                  !.adj_order = @ \/ so_far.adj_order]

\* while not okurigana_to_highlight and (next_kunyomi := next(kunyomi_readings, None)):
\* the readings are taken in list order, an empty entry ends the loop, and an
\* entry that does not split into exactly two parts at "." is skipped.
RECURSIVE OkuriganaLoop(_, _, _, _, _)
OkuriganaPass(parts, kunyomi_readings, so_far, word_data, highlight_args, order) ==
    IF Len(parts) # 2
    THEN OkuriganaLoop(Tail(kunyomi_readings), so_far, word_data, highlight_args, order)
    ELSE OkuriganaLoop(Tail(kunyomi_readings),
                       KeepOrderFlags(check_okurigana_for_kunyomi_inflection(
                                          parts[2], word_data, highlight_args, order),
                                      so_far),
                       word_data, highlight_args, order)

OkuriganaLoop(kunyomi_readings, so_far, word_data, highlight_args, order) ==
    IF so_far.okurigana_to_highlight # <<>> \/ kunyomi_readings = <<>>
       \/ Head(kunyomi_readings) = <<>>
    THEN so_far
    ELSE OkuriganaPass(Split(Head(kunyomi_readings), "."), kunyomi_readings, so_far,
                       word_data, highlight_args, order)

\* The triple process_readings returns (result, okurigana_to_highlight,
\* rest_kana), with the messages it passed to show_error_message.  is_dict is
\* FALSE when the first component is the str highlight_args["text"] instead
\* of a MainResult.
Processed(result, is_dict, inflection, messages) ==
    [result |-> result, is_dict |-> is_dict,
     okurigana_to_highlight |-> inflection.okurigana_to_highlight,
     rest_kana |-> inflection.rest_kana,
     verb_order |-> inflection.verb_order, adj_order |-> inflection.adj_order,
     messages |-> messages]

\* process_readings after check_kunyomi_readings has returned
\* kunyomi_results.  kanji_count and kanji_pos are set by both callers, so
\* the test for their being None is always false.
AfterKunyomi(highlight_args, word_data, order, kunyomi_results) ==
    IF kunyomi_results.type = "kunyomi"
    THEN Processed(kunyomi_results, TRUE,
                   OkuriganaLoop(Split(highlight_args.kunyomi, ","),
                                 Inflection(<<>>, word_data.okurigana),
                                 word_data, highlight_args, order),
                   <<>>)
    ELSE Processed(handle_jukujigun_case(word_data), TRUE,
                   Inflection(<<>>, word_data.okurigana), <<>>)

\* process_readings without the return after an onyomi match.
AfterOnyomi_without_return(highlight_args, word_data, return_on_or_kun_match_only, order, section, onyomi_match) ==
    AfterKunyomi(highlight_args, word_data, order,
                 check_kunyomi_readings(highlight_args.kunyomi, word_data.furigana,
                                        section, word_data.edge,
                                        return_on_or_kun_match_only))

\* process_readings after check_onyomi_readings has returned onyomi_match
AfterOnyomi(highlight_args, word_data, return_on_or_kun_match_only, order, section, onyomi_match) ==
    IF onyomi_match.type = "onyomi"
    THEN Processed(onyomi_match, TRUE, Inflection(<<>>, word_data.okurigana), <<>>)
    ELSE AfterKunyomi(highlight_args, word_data, order,
                      check_kunyomi_readings(highlight_args.kunyomi, word_data.furigana,
                                             section, word_data.edge,
                                             return_on_or_kun_match_only))

\* process_readings after get_target_furigana_section has returned section
AfterSection(highlight_args, word_data, return_on_or_kun_match_only, order, section) ==
    IF ~section.ok
    THEN Processed(MainResult(highlight_args.text, "none", <<>>, <<>>, "no_edge"), FALSE,
                   Inflection(<<>>, word_data.okurigana), <<NoEdgeMessage>>)
    ELSE AfterOnyomi(highlight_args, word_data, return_on_or_kun_match_only, order,
                     section.section,
                     check_onyomi_readings(highlight_args.onyomi, word_data.furigana,
                                           section.section, word_data.edge,
                                           return_on_or_kun_match_only))

process_readings(highlight_args, word_data, return_on_or_kun_match_only, order) ==
    AfterSection(highlight_args, word_data, return_on_or_kun_match_only, order,
                 get_target_furigana_section(word_data.furigana, word_data.edge))

\* What furigana_replacer returns for one match: the replacement text, the
\* messages shown, the exception that escaped if any, and the word data and
\* the triple of process_readings it was composed from.
Replacement(text, path, word_data, processed) ==
    [text |-> text, path |-> path, word_data |-> word_data,
     result |-> processed.result,
     okurigana_to_highlight |-> processed.okurigana_to_highlight,
     rest_kana |-> processed.rest_kana,
     verb_order |-> processed.verb_order, adj_order |-> processed.adj_order,
     messages |-> processed.messages, is_dict |-> processed.is_dict,
     raised |-> IF ~processed.is_dict THEN "TypeError" ELSE ""]

\* The replacement without a call of process_readings: the furigana and the
\* okurigana as they are.
Unprocessed(path, word_data) ==
    Replacement(word_data.furigana \o word_data.okurigana, path, word_data,
                Processed(NoResult, TRUE, Inflection(<<>>, word_data.okurigana), <<>>))

WordData(kanji_pos, kanji_count, edge, word, furigana, okurigana) ==
    [kanji_pos |-> kanji_pos, kanji_count |-> kanji_count, furigana |-> furigana,
     edge |-> edge, word |-> word, okurigana |-> okurigana]

\* handle_whole_kanji_case with one rendering for every type of match.
WholeReplacement_without_katakana(word_data, processed) ==
    Replacement(B_OPEN \o word_data.furigana \o processed.okurigana_to_highlight
                \o B_CLOSE \o processed.rest_kana,
                "whole", word_data, processed)

\* The return of handle_whole_kanji_case after process_readings
WholeReplacement(word_data, processed) ==
    Replacement(IF processed.result.type = "onyomi"
                THEN B_OPEN \o to_katakana(word_data.furigana) \o B_CLOSE
                     \o processed.rest_kana
                ELSE B_OPEN \o word_data.furigana \o processed.okurigana_to_highlight
                     \o B_CLOSE \o processed.rest_kana,
                "whole", word_data, processed)

WholeWith(highlight_args, word_data, order) ==
    WholeReplacement(word_data, process_readings(highlight_args, word_data, TRUE, order))

handle_whole_kanji_case(highlight_args, word, furigana, okurigana, order) ==
    WholeWith(highlight_args, WordData(0, 1, WHOLE, word, furigana, okurigana), order)

\* word.find(kanji_to_highlight) for a one-character kanji_to_highlight
Find(word, character) ==
    IF \E i \in 1..Len(word) : word[i] = character
    THEN Min({i \in 1..Len(word) : word[i] = character}) - 1
    ELSE -1

\* The return of handle_partial_kanji_case after process_readings
PartialReplacement(word_data, processed) ==
    Replacement(IF processed.okurigana_to_highlight # <<>>
                THEN Replace(processed.result.text \o B_OPEN
                                 \o processed.okurigana_to_highlight \o B_CLOSE
                                 \o processed.rest_kana,
                             B_CLOSE \o B_OPEN, <<>>)
                ELSE processed.result.text \o processed.rest_kana,
                "partial", word_data, processed)

PartialWith(highlight_args, word_data, order) ==
    PartialReplacement(word_data, process_readings(highlight_args, word_data, FALSE, order))

\* handle_partial_kanji_case for the kanji_pos that word.find returned
PartialAt(highlight_args, word, furigana, okurigana, order, kanji_pos) ==
    IF kanji_pos = -1
    THEN Unprocessed("other_word", WordData(-1, Len(word), "", word, furigana, okurigana))
    ELSE PartialWith(highlight_args,
                     WordData(kanji_pos, Len(word),
                              IF kanji_pos # 0 /\ kanji_pos # Len(word) - 1 THEN MIDDLE
                              ELSE IF kanji_pos = 0 THEN LEFT ELSE RIGHT,
                              word, furigana, okurigana),
                     order)

handle_partial_kanji_case(highlight_args, word, furigana, okurigana, order) ==
    PartialAt(highlight_args, word, furigana, okurigana, order,
              Find(word, highlight_args.kanji_to_highlight))

SOUND == <<"_s", "_o", "_u", "_n", "_d", ":">>

\* furigana_replacer without the test for an audio reference.
furigana_replacer_without_sound_check(highlight_args, word, furigana, okurigana, order) ==
    IF word = <<highlight_args.kanji_to_highlight>>
       \/ word = <<highlight_args.kanji_to_highlight, "noma">>
    THEN handle_whole_kanji_case(highlight_args, word, furigana, okurigana, order)
    ELSE handle_partial_kanji_case(highlight_args, word, furigana, okurigana, order)

\* furigana_replacer of kanji_to_highlight for the three groups of a match
furigana_replacer(highlight_args, word, furigana, okurigana, order) ==
    IF StartsWith(furigana, SOUND)
    THEN Unprocessed("sound", WordData(-1, Len(word), "", word, furigana, okurigana))
    ELSE IF word = <<highlight_args.kanji_to_highlight>>
            \/ word = <<highlight_args.kanji_to_highlight, "noma">>
    THEN handle_whole_kanji_case(highlight_args, word, furigana, okurigana, order)
    ELSE handle_partial_kanji_case(highlight_args, word, furigana, okurigana, order)

(***************************************************************************)
(* The notation parser                                                     *)
(***************************************************************************)
\* The last position of the longest run of characters of class that starts
\* at position s of text (s - 1 when there is none).
RunEnd(text, s, class) ==
    Max({e \in (s - 1)..Len(text) : \A k \in s..e : text[k] \in class})

\* The ends of the consecutive greedy runs of the classes from position s on.
RECURSIVE RunEnds(_, _, _)
RunEndsAfter(text, e, classes) == <<e>> \o RunEnds(text, e + 1, classes)

RunEnds(text, s, classes) ==
    IF classes = <<>> THEN <<>>
    ELSE RunEndsAfter(text, RunEnd(text, s, Head(classes)), Tail(classes))

NoMatch == [found |-> FALSE]

\* OKURIGANA_MIX_CLEANING_RE matched at position s: kanji (group 1),
\* hiragana (2), optional kanji (3), optional hiragana (4), "[", a lazy
\* non-empty group 5, group 2 again, a lazy group 6, group 4 again, "]".
\* The greedy groups 1-4 are tried longest first, the lazy ones shortest
\* first.  e holds the ends of the four greedy runs.  Without kanji in
\* group 3 the hiragana run before the bracket is divided between the
\* groups 2 and 4: h is the end of group 2.
Group2(text, e, h) == SubSeq(text, e[1] + 1, h)

Group4(text, e, h) ==
    IF e[3] > e[2] THEN SubSeq(text, e[3] + 1, e[4]) ELSE SubSeq(text, h + 1, e[2])

\* <<n5, n6>>: lengths of the groups 5 and 6 with which the bracket that
\* opens at position open matches, for the groups 2 and 4
InsideWith(text, open, g2, g4) ==
    {n \in (1..Len(text)) \X (0..Len(text)) :
        /\ open + n[1] + Len(g2) + n[2] + Len(g4) + 1 <= Len(text)
        /\ SubSeq(text, open + n[1] + 1, open + n[1] + Len(g2)) = g2
        /\ SubSeq(text, open + n[1] + Len(g2) + n[2] + 1,
                  open + n[1] + Len(g2) + n[2] + Len(g4) + 1)
           = g4 \o <<"]">>}

Inside(text, e, h) == InsideWith(text, e[4] + 1, Group2(text, e, h), Group4(text, e, h))

CleaningMatch(text, s, e, g2, g4, n5, n6) ==
    [found |-> TRUE, start |-> s,
     end |-> e[4] + 1 + n5 + Len(g2) + n6 + Len(g4) + 1,
     kanji1 |-> SubSeq(text, s, e[1]), hiragana1 |-> g2,
     kanji2 |-> SubSeq(text, e[2] + 1, e[3]), hiragana2 |-> g4,
     furigana1 |-> SubSeq(text, e[4] + 2, e[4] + 1 + n5),
     furigana2 |-> SubSeq(text, e[4] + 1 + n5 + Len(g2) + 1, e[4] + 1 + n5 + Len(g2) + n6)]

\* The shortest group 6 for the shortest group 5
CleaningShortest(text, s, e, h, inside, n5) ==
    CleaningMatch(text, s, e, Group2(text, e, h), Group4(text, e, h), n5,
                  Min({n[2] : n \in {m \in inside : m[1] = n5}}))

\* The longest group 2 with which the bracket matches
CleaningLongest(text, s, e, h) ==
    CleaningShortest(text, s, e, h, Inside(text, e, h),
                     Min({n[1] : n \in Inside(text, e, h)}))

CleaningRuns(text, s, e, feasible) ==
    IF e[1] < s \/ e[2] <= e[1] \/ e[4] + 1 > Len(text) THEN NoMatch
    ELSE IF text[e[4] + 1] # "[" \/ feasible = {} THEN NoMatch
    ELSE CleaningLongest(text, s, e, Max(feasible))

\* The ends of group 2 that leave the rest of the pattern a chance
FeasibleEnds(text, e) ==
    {h \in (IF e[3] > e[2] THEN {e[2]} ELSE (e[1] + 1)..e[2]) : Inside(text, e, h) # {}}

CleaningEnds(text, s, e) == CleaningRuns(text, s, e, FeasibleEnds(text, e))

CleaningGroups(text, s) ==
    CleaningEnds(text, s, RunEnds(text, s, <<KANJI_RE, Hiragana, KANJI_RE, Hiragana>>))

okurigana_mix_cleaning_replacer(match) ==
    match.kanji1 \o <<"[">> \o match.furigana1 \o <<"]">> \o match.hiragana1
    \o (IF match.furigana2 # <<>>
        THEN match.kanji2 \o <<"[">> \o match.furigana2 \o <<"]">> \o match.hiragana2
        ELSE <<>>)

\* OKURIGANA_MIX_CLEANING_RE.sub(okurigana_mix_cleaning_replacer, text):
\* the leftmost match is replaced and the search goes on behind it.
RECURSIVE OKURIGANA_MIX_CLEANING_RE_sub(_)
CleaningSubMatch(text, match) ==
    SubSeq(text, 1, match.start - 1) \o okurigana_mix_cleaning_replacer(match)
    \o OKURIGANA_MIX_CLEANING_RE_sub(From(text, match.end))

CleaningSubFrom(text, starts) ==
    IF starts = {} THEN text ELSE CleaningSubMatch(text, CleaningGroups(text, Min(starts)))

OKURIGANA_MIX_CLEANING_RE_sub(text) ==
    CleaningSubFrom(text, {s \in 1..Len(text) : CleaningGroups(text, s).found})

\* KANJI_AND_FURIGANA_AND_OKURIGANA_REC matched at position s: the kanji
\* run up to e1, "[", the lazy non-empty furigana up to the next "]" at
\* closing, and the hiragana that follow up to e3.
UnitMatch(text, s, e1, closing, e3) ==
    [found |-> TRUE, start |-> s, end |-> e3,
     word |-> SubSeq(text, s, e1),
     furigana |-> SubSeq(text, e1 + 2, closing - 1),
     okurigana |-> SubSeq(text, closing + 1, e3)]

UnitClosing(text, s, e1, closing) ==
    IF closing = {} THEN NoMatch
    ELSE UnitMatch(text, s, e1, Min(closing), RunEnd(text, Min(closing) + 1, Hiragana))

UnitRun(text, s, e1) ==
    IF e1 < s \/ e1 + 1 > Len(text) THEN NoMatch
    ELSE IF text[e1 + 1] # "[" THEN NoMatch
    ELSE UnitClosing(text, s, e1, {j \in (e1 + 3)..Len(text) : text[j] = "]"})

UnitAt(text, s) == UnitRun(text, s, RunEnd(text, s, KANJI_RE))

FirstUnit(text, starts) == IF starts = {} THEN NoMatch ELSE UnitAt(text, Min(starts))

\* The next match of KANJI_AND_FURIGANA_AND_OKURIGANA_REC at or after
\* position pos.
NextUnit(text, pos) == FirstUnit(text, {s \in pos..Len(text) : UnitAt(text, s).found})

\* The special case of the small tsu after the furigana of K_hi K_zou
HizoReplace(text) ==
    Replace(text, <<"K_hi", "K_zou", "[", "hi", "zo", "]", "xtu">>,
            <<"K_hi", "K_zou", "[", "hi", "zo", "xtu", "]">>)

\* The clean-up of a text the <b> tags were removed from first.
CleanText_without_markers(text) ==
    HizoReplace(OKURIGANA_MIX_CLEANING_RE_sub(
                    Replace(Replace(text, B_OPEN, <<>>), B_CLOSE, <<>>)))

\* clean_text of kana_highlight: the bridge cleanup, then the special case.
CleanText(text) == HizoReplace(OKURIGANA_MIX_CLEANING_RE_sub(text))

\* KANJI_AND_FURIGANA_AND_OKURIGANA_REC.sub(furigana_replacer, clean_text)
\* from position pos on, when no exception escapes.
RECURSIVE SubUnits(_, _, _, _)
SubMatch(highlight_args, clean_text, pos, order, match) ==
    IF ~match.found THEN From(clean_text, pos - 1)
    ELSE SubSeq(clean_text, pos, match.start - 1)
         \o furigana_replacer(highlight_args, match.word, match.furigana,
                              match.okurigana, order).text
         \o SubUnits(highlight_args, clean_text, match.end + 1, order)

SubUnits(highlight_args, clean_text, pos, order) ==
    SubMatch(highlight_args, clean_text, pos, order, NextUnit(clean_text, pos))

\* kana_highlight as a function of its four arguments and of the iteration
\* order of the process.
kana_highlight(kanji_to_highlight, onyomi, kunyomi, text, order) ==
    SubUnits([text |-> text, onyomi |-> onyomi, kunyomi |-> kunyomi,
              kanji_to_highlight |-> kanji_to_highlight],
             CleanText(text), 1, order)

\* FURIGANA_REC matched at position s: an optional space, a lazy non-empty
\* group 1 without space or ">" of length l from position t on, "[", a lazy
\* non-empty group 2, "]" at position j.
FuriganaMatch(text, s, t, l, j) ==
    [found |-> TRUE, start |-> s, end |-> j,
     group0 |-> SubSeq(text, s, j), group1 |-> SubSeq(text, t, t + l - 1),
     group2 |-> SubSeq(text, t + l + 1, j - 1)]

FuriganaShortest(text, s, t, l) ==
    FuriganaMatch(text, s, t, l, Min({k \in (t + l + 2)..Len(text) : text[k] = "]"}))

FuriganaLengths(text, s, t, lengths) ==
    IF lengths = {} THEN NoMatch ELSE FuriganaShortest(text, s, t, Min(lengths))

FuriganaFrom(text, s, t) ==
    FuriganaLengths(text, s, t,
                    {l \in 1..(Len(text) - t) :
                        /\ \A k \in t..(t + l - 1) : text[k] \notin {" ", ">"}
                        /\ text[t + l] = "["
                        /\ \E j \in (t + l + 2)..Len(text) : text[j] = "]"})

FuriganaAt(text, s) == FuriganaFrom(text, s, IF text[s] = " " THEN s + 1 ELSE s)

\* kana_filter.bracket_replace
bracket_replace(match) ==
    IF StartsWith(match.group1, SOUND) THEN match.group0 ELSE match.group1

\* FURIGANA_REC.sub(bracket_replace, text)
RECURSIVE FURIGANA_REC_sub(_)
FuriganaSubMatch(text, match) ==
    SubSeq(text, 1, match.start - 1) \o bracket_replace(match)
    \o FURIGANA_REC_sub(From(text, match.end))

FuriganaSubFrom(text, starts) ==
    IF starts = {} THEN text ELSE FuriganaSubMatch(text, FuriganaAt(text, Min(starts)))

FURIGANA_REC_sub(text) ==
    FuriganaSubFrom(text, {s \in 1..Len(text) : FuriganaAt(text, s).found})

\* KANJI_REC.sub("", text)
KANJI_REC_sub(text) == SelectSeq(text, LAMBDA c : c \notin KANJI_RE)

NBSP == <<"&", "_n", "_b", "_s", "_p", ";">>

kana_filter(text) == KANJI_REC_sub(FURIGANA_REC_sub(Replace(text, NBSP, <<" ">>)))

(***************************************************************************)
(* Bounds and inputs                                                       *)
(***************************************************************************)
\* The longest furigana of the generated units.
MaxFuriganaLen == 3

\* The longest word of the generated units.
MaxWordLen == 3

\* The sequences over S of the lengths lo..hi.
SeqsOf(S, lo, hi) == UNION {[1..n -> S] : n \in lo..hi}

\* The kana the generated furigana are written with: a kana with a voiced
\* counterpart, that counterpart, a second kana, and the small tsu.
FuriganaKana == {"ki", "gi", "ku", "xtu"}

Furiganas == SeqsOf(FuriganaKana, 1, MaxFuriganaLen)

\* Words of the target kanji K_a and another kanji, and the target with
\* the repeater mark.
Words == SeqsOf({"K_a", "K_b"}, 1, MaxWordLen) \cup {<<"K_a", "noma">>}

\* The onyomi and kunyomi lists of the target kanji.  Onyomi: two readings
\* one a prefix of the other, annotated both or only the shorter; a single
\* one-kana reading.  Kunyomi: a verb stem with its ending and a bare stem;
\* a two-kana stem; an adjective stem with its ending; a verb stem with its
\* ending followed by an entry with two dots and by a well-formed entry
\* behind it.
Readings ==
    {[onyomi |-> <<"KI", "KU", "(", "K_b", ")", ",", "KI", "(", "K_c", ")">>,
      kunyomi |-> <<"ku", ".", "ru", ",", "ki">>],
     [onyomi |-> <<"KI", "(", "K_b", "K_c", ")", ",", "KI", "KU">>,
      kunyomi |-> <<"ku", "ki">>],
     [onyomi |-> <<"KU", "(", "K_c", ")">>,
      kunyomi |-> <<"ki", ".", "i">>],
     [onyomi |-> <<"KI", "KU">>,
      kunyomi |-> <<"ku", ".", "ru", ",", "ki", ".", "ru", ".", "i", ",", "gi", ".", "ru">>]}

Unit(word, furigana, okurigana) == word \o <<"[">> \o furigana \o <<"]">> \o okurigana

\* One unit without trailing kana: every word with every furigana.
GeneratedTexts == {Unit(w, f, <<>>) : w \in Words, f \in Furiganas}

\* Trailing kana: nothing, the ending of the kunyomi, its noun form, endings
\* of the verb and adjective tables of which another entry is a prefix, a
\* kana that starts no inflection, a kana that belongs to no ending, an
\* ending of the verb table whose first kana is in NOT_FIRST_KANA.
Okuriganas ==
    {<<>>, <<"ru">>, <<"ri">>, <<"ru", "na">>, <<"ta", "ra">>, <<"ra", "na", "i">>,
     <<"xtu", "ta">>, <<"ku", "na", "i">>, <<"ka", "xtu", "ta">>, <<"i">>, <<"wo">>,
     <<"ki">>, <<"yo", "u">>}

\* One unit with trailing kana: the target alone, repeated, at the right
\* and at the left edge.
OkuriganaTexts ==
    {Unit(w, f, ok) :
        w \in {<<"K_a">>, <<"K_a", "noma">>, <<"K_b", "K_a">>, <<"K_a", "K_b">>},
        f \in {<<"ku">>, <<"ki">>, <<"gi">>, <<"gi", "ku">>, <<"gi", "xyo">>},
        ok \in Okuriganas}

\* Units no reading is found in: words of several characters with the
\* target, and furigana of other kana, shorter and longer than the word.
JukujigunTexts ==
    {Unit(w, f, <<>>) :
        w \in {w \in Words : Len(w) > 1 /\ \E i \in 1..Len(w) : w[i] = "K_a"},
        f \in SeqsOf({"na", "ma"}, 1, MaxFuriganaLen + 2)}

\* Texts of more than one unit: emphasis markers left by an earlier call,
\* before a unit and inside a furigana; an audio reference; a furigana that
\* bridges kana between two kanji; two units with plain text and spaces; a
\* unit nested in the furigana of another; the special case of the small
\* tsu; a non-breaking space; furigana with a mora of two kana; two units
\* with nothing between them; a furigana with a katakana.
Texts ==
    {B_OPEN \o <<"ki">> \o B_CLOSE \o Unit(<<"K_a", "K_b">>, <<"ki", "ku">>, <<>>),
     Unit(<<"K_a", "K_b">>, B_OPEN \o <<"ki">> \o B_CLOSE \o <<"ku">>, <<"ru">>),
     B_OPEN \o <<"KI">> \o B_CLOSE \o <<"ku">>,
     Unit(<<"K_a">>, SOUND \o <<"ki">>, <<"ku">>) \o Unit(<<"K_a">>, <<"ki">>, <<>>),
     Unit(<<"K_b", "K_a">>, SOUND \o <<"ku">>, <<>>),
     <<"[">> \o SOUND \o <<"ki">> \o <<"]", " ">> \o Unit(<<"K_a">>, <<"ku">>, <<"ru">>),
     <<"K_a", "ri", "K_b", "wa">> \o <<"[">> \o <<"ku", "ri", "gi", "wa">> \o <<"]", "no">>,
     <<"K_b", "ru", "K_a">> \o <<"[">> \o <<"gi", "ru", "ki">> \o <<"]", "xtu", "ta">>,
     <<"K_b", "K_a", "me">> \o <<"[">> \o <<"gi", "ku", "me">> \o <<"]">>,
     <<"K_a", "ru", "K_b">> \o <<"[">> \o <<"ku", "ru">> \o <<"]", "ru">>,
     <<"K_a", "ru", "K_b", "ru">> \o <<"[">> \o <<"ku", "ru", "ru">> \o <<"]">>,
     <<"na", " ">> \o Unit(<<"K_a">>, <<"ki">>, <<"ha">>) \o <<" ">>
         \o Unit(<<"K_a", "K_b">>, <<"ku", "ki">>, <<"wo">>) \o <<"KI", ".">>,
     Unit(<<"2">>, <<"na">>, <<"tu">>) \o <<"no", " ">>
         \o Unit(<<"K_b", "K_a">>, <<"gi", "xtu">>, <<>>),
     <<"K_b", "[">> \o Unit(<<"K_a">>, <<"ki">>, <<>>) \o <<"]">>,
     Unit(<<"K_hi", "K_zou">>, <<"hi", "zo">>, <<"xtu">>) \o Unit(<<"K_a">>, <<"ki">>, <<>>),
     <<"na">> \o NBSP \o Unit(<<"K_a">>, <<"ki">>, <<>>),
     Unit(<<"K_a", "K_b">>, <<"ki", "xyo", "ku">>, <<>>),
     Unit(<<"K_b", "K_a">>, <<"na", "xyo", "ma">>, <<>>),
     Unit(<<"K_a">>, <<"ki">>, <<>>) \o Unit(<<"K_a">>, <<"ku">>, <<>>),
     Unit(<<"K_a", "K_b">>, <<"NA", "ma">>, <<>>)}

\* Further reading lists: a kunyomi whose ending starts with a kana of
\* NOT_FIRST_KANA; a kanji without onyomi; a kanji without kunyomi; lists
\* that end with a separator.
SpecialReadings ==
    {[onyomi |-> <<"KU">>, kunyomi |-> <<"ki", ".", "yo", "u">>],
     [onyomi |-> <<>>, kunyomi |-> <<"ku", ".", "ru", ",", "ki">>],
     [onyomi |-> <<"KU", "(", "K_c", ")">>, kunyomi |-> <<>>],
     [onyomi |-> <<"KU", ",">>, kunyomi |-> <<"ki", ",">>]}

\* The units these lists are applied to: the kanji alone and at each place
\* of a longer word, with and without trailing kana.
SpecialTexts ==
    {Unit(<<"K_a">>, <<"ki">>, <<"yo", "u">>),
     Unit(<<"K_a">>, <<"ki">>, <<"yo">>),
     Unit(<<"K_a">>, <<"ki">>, <<>>),
     Unit(<<"K_a">>, <<"ku">>, <<"ru">>),
     Unit(<<"K_b", "K_a">>, <<"ku", "ki">>, <<>>),
     Unit(<<"K_a", "K_b">>, <<"ki", "gi">>, <<>>),
     Unit(<<"K_b", "K_a", "K_b">>, <<"ku", "ki", "ku">>, <<>>),
     Unit(<<"K_a", "K_b">>, <<"na", "ma">>, <<>>)}

Inputs ==
    {[kanji_to_highlight |-> "K_a", onyomi |-> r.onyomi, kunyomi |-> r.kunyomi,
      text |-> t] :
        r \in Readings, t \in GeneratedTexts \cup OkuriganaTexts \cup JukujigunTexts \cup Texts}
    \cup {[kanji_to_highlight |-> "K_a", onyomi |-> r.onyomi, kunyomi |-> r.kunyomi,
           text |-> t] :
              r \in SpecialReadings, t \in SpecialTexts}

(***************************************************************************)
(* The state machine                                                       *)
(***************************************************************************)
VARIABLES
    highlight_args,   \* the four arguments of the call of kana_highlight
    pc,               \* "start", "sub", "done", "raised", "again", "filtered", "returned"
    clean_text,       \* clean_text of kana_highlight
    pos,              \* the position re.sub has reached in clean_text
    out,              \* the text re.sub has put together so far
    unit,             \* the last call of furigana_replacer
    messages,         \* what show_error_message was called with
    iteration_order,  \* the order of the Python sets, as far as it has shown (0: not yet)
    again,            \* kana_highlight of out, with the same readings
    filtered          \* kana_filter of text and of out

vars ==
    <<highlight_args, pc, clean_text, pos, out, unit, messages, iteration_order,
      again, filtered>>

NoUnit == Unprocessed("", WordData(-1, 0, "", <<>>, <<>>, <<>>))

Init ==
    /\ highlight_args \in Inputs
    /\ pc = "start"
    /\ clean_text = <<>>
    /\ pos = 1
    /\ out = <<>>
    /\ unit = NoUnit
    /\ messages = <<>>
    /\ iteration_order = [verb |-> 0, adj |-> 0]
    /\ again = <<>>
    /\ filtered = [text |-> <<>>, out |-> <<>>]

\* The first two statements of kana_highlight after furigana_replacer is
\* defined: the bridge cleanup and the special case.
Clean ==
    /\ pc = "start"
    /\ clean_text' = CleanText(highlight_args.text)
    /\ pc' = "sub"
    /\ UNCHANGED <<highlight_args, pos, out, unit, messages, iteration_order, again, filtered>>

\* The orders of the sets this process may turn out to have: those that
\* agree with what has shown so far; where a table does not decide the
\* call, one order stands for all.
PossibleOrders(known, verb_decides, adj_decides) ==
    {o \in SetOrders :
        /\ o.verb = (IF known.verb # 0 THEN known.verb ELSE IF verb_decides THEN o.verb ELSE 1)
        /\ o.adj = (IF known.adj # 0 THEN known.adj ELSE IF adj_decides THEN o.adj ELSE 1)}

\* The order that stands for all when no table decides.
DefaultOrder(known) ==
    [verb |-> IF known.verb # 0 THEN known.verb ELSE 1,
     adj |-> IF known.adj # 0 THEN known.adj ELSE 1]

\* What process_readings returns to a caller that passes the word data of
\* match without an edge: no replacement is composed from it and nothing
\* is raised in the call itself.
ReturnedWithoutEdge(word_data, processed) ==
    /\ unit' = [Replacement(<<>>, "process_readings", word_data, processed)
                   EXCEPT !.raised = ""]
    /\ messages' = messages \o processed.messages

ProcessMatchWithoutEdge(match, kanji_pos) ==
    /\ match.found
    /\ kanji_pos # -1
    /\ ReturnedWithoutEdge(
           WordData(kanji_pos, Len(match.word), "", match.word, match.furigana,
                    match.okurigana),
           process_readings(highlight_args,
                            WordData(kanji_pos, Len(match.word), "", match.word,
                                     match.furigana, match.okurigana),
                            FALSE, DefaultOrder(iteration_order)))

\* process_readings is called for the first unit of the text with word
\* data in which edge is None.
ProcessWithoutEdge ==
    /\ pc = "start"
    /\ ProcessMatchWithoutEdge(
           NextUnit(highlight_args.text, 1),
           Find(NextUnit(highlight_args.text, 1).word, highlight_args.kanji_to_highlight))
    /\ pc' = "returned"
    /\ UNCHANGED <<highlight_args, clean_text, pos, out, iteration_order, again, filtered>>

\* re.sub puts the text before the match and the replacement into the
\* result and goes on behind the match; an exception ends the call.
Replaced(match, order, replacement) ==
    /\ unit' = replacement
    /\ messages' = messages \o replacement.messages
    /\ iteration_order' =
           [verb |-> IF replacement.verb_order THEN order.verb ELSE iteration_order.verb,
            adj |-> IF replacement.adj_order THEN order.adj ELSE iteration_order.adj]
    /\ IF replacement.raised # ""
       THEN pc' = "raised" /\ UNCHANGED <<pos, out>>
       ELSE /\ pc' = "sub"
            /\ out' = out \o SubSeq(clean_text, pos, match.start - 1) \o replacement.text
            /\ pos' = match.end + 1

\* probe is the return of furigana_replacer for the default order: it tells
\* whether the order of a table decides the return.
ReplaceInSomeOrder(match, probe) ==
    \E order \in PossibleOrders(iteration_order, probe.verb_order, probe.adj_order) :
        Replaced(match, order,
                 IF order = DefaultOrder(iteration_order) THEN probe
                 ELSE furigana_replacer(highlight_args, match.word, match.furigana,
                                        match.okurigana, order))

ReplaceFound(match) ==
    /\ match.found
    /\ ReplaceInSomeOrder(match,
                          furigana_replacer(highlight_args, match.word, match.furigana,
                                            match.okurigana, DefaultOrder(iteration_order)))

\* One call of furigana_replacer by re.sub, for the next match in
\* clean_text.
ReplaceMatch ==
    /\ pc = "sub"
    /\ ReplaceFound(NextUnit(clean_text, pos))
    /\ UNCHANGED <<highlight_args, clean_text, again, filtered>>

\* re.sub finds no further match and kana_highlight returns.
Return ==
    /\ pc = "sub"
    /\ ~NextUnit(clean_text, pos).found
    /\ out' = out \o From(clean_text, pos - 1)
    /\ pc' = "done"
    /\ UNCHANGED <<highlight_args, clean_text, pos, unit, messages, iteration_order,
                   again, filtered>>

ReapplyInSomeOrder(units_left) ==
    \E order \in PossibleOrders(iteration_order, units_left, units_left) :
        again' = kana_highlight(highlight_args.kanji_to_highlight, highlight_args.onyomi,
                                highlight_args.kunyomi, out, order)

\* kana_highlight is called on its own output, with the same readings, in
\* the same process.
Reapply ==
    /\ pc = "done"
    /\ ReapplyInSomeOrder(NextUnit(CleanText(out), 1).found)
    /\ pc' = "again"
    /\ UNCHANGED <<highlight_args, clean_text, pos, out, unit, messages, iteration_order,
                   filtered>>

\* kana_filter is called on the text and on the output.
Filter ==
    /\ pc = "again"
    /\ filtered' = [text |-> kana_filter(highlight_args.text), out |-> kana_filter(out)]
    /\ pc' = "filtered"
    /\ UNCHANGED <<highlight_args, clean_text, pos, out, unit, messages, iteration_order,
                   again>>

Next ==
    \/ Clean
    \/ ProcessWithoutEdge
    \/ ReplaceMatch
    \/ Return
    \/ Reapply
    \/ Filter

Spec == Init /\ [][Next]_vars

(***************************************************************************)
(* Properties                                                              *)
(***************************************************************************)
\* text without the emphasis markers
RemoveMarkers(text) == Replace(Replace(text, B_OPEN, <<>>), B_CLOSE, <<>>)

HasMarker(text) == Contains(B_OPEN, text) \/ Contains(B_CLOSE, text)

\* The call of furigana_replacer recorded in unit went through
\* process_readings and came back with a reading found in the furigana.
ReadingMatched ==
    /\ unit.path \in {"whole", "partial"}
    /\ unit.result.type \in {"onyomi", "kunyomi"}
    /\ unit.result.how \in {"direct", "first_kana", "small_tsu"}

\* The readings of the onyomi list, without annotation and in hiragana.
OnyomiReadings ==
    LET entries == Split(highlight_args.onyomi, ",")
    IN  {to_hiragana(Strip(RemoveParentheses(entries[i]))) : i \in 1..Len(entries)}

\* C1: when kana_highlight returns, its output is what it returns for the
\* text with every emphasis marker removed beforehand: a marker of the
\* input does not reach the output.
C1_MarkersOfTheInputAreStripped ==
    (pc = "done" /\ HasMarker(highlight_args.text))
    => \E order \in PossibleOrders(iteration_order, TRUE, TRUE) :
          out = kana_highlight(highlight_args.kanji_to_highlight, highlight_args.onyomi,
                               highlight_args.kunyomi, RemoveMarkers(highlight_args.text),
                               order)

RECURSIVE FuriganaOfUnits(_, _)
FuriganaOfUnits(text, p) ==
    LET match == NextUnit(text, p)
    IN  IF ~match.found THEN {}
        ELSE {match.furigana} \cup FuriganaOfUnits(text, match.end + 1)

\* No furigana of the text holds a kanji, a digit or the repeater mark.
FuriganaWithoutKanji ==
    \A f \in FuriganaOfUnits(clean_text, 1) : \A i \in 1..Len(f) : f[i] \notin KANJI_RE

C3_ReadingRoundTrip ==
    pc = "filtered"
    => to_hiragana(RemoveMarkers(filtered.out)) = to_hiragana(filtered.text)

\* C4: when check_onyomi_readings reports a match, no reading of the list
\* that occurs in the eligible section is longer than the reading matched.
C4_LongestReadingFirst ==
    (ReadingMatched /\ unit.result.type = "onyomi")
    => \A r \in OnyomiReadings :
          Contains(r, get_target_furigana_section(unit.word_data.furigana,
                                                  unit.word_data.edge).section)
          => Len(r) <= Len(unit.result.reading)

\* The occurrences of the string m in the furigana that keep clear of the
\* characters the edge excludes: the last for left, the first for right,
\* both for middle, none for whole.
EligibleOccurrences(m, furigana, edge) ==
    {i \in Occurrences(m, furigana) :
        /\ edge \in {RIGHT, MIDDLE} => i >= 2
        /\ edge \in {LEFT, MIDDLE} => i + Len(m) - 1 <= Len(furigana) - 1}

\* C5: a reading (or variant) reported as a match occurs in the furigana
\* clear of the excluded edge characters; one whose occurrences all overlap
\* an excluded character is not reported.
C5_EdgeExclusion ==
    ReadingMatched
    => EligibleOccurrences(unit.result.matched, unit.word_data.furigana,
                           unit.word_data.edge) # {}

\* A reading of the onyomi list occurs in the furigana of a word with the
\* kanji at its left edge, but only on the last character, and the call
\* has returned.
C5_Witness ==
    /\ unit.path = "partial"
    /\ unit.word_data.edge = LEFT
    /\ \E r \in OnyomiReadings :
          /\ Contains(r, unit.word_data.furigana)
          /\ EligibleOccurrences(r, unit.word_data.furigana, LEFT) = {}
    /\ ReadingMatched

\* The furigana with the occurrence of m at position i wrapped in markers,
\* in katakana for an onyomi.
Wrapped(furigana, m, i, type) ==
    SubSeq(furigana, 1, i - 1) \o B_OPEN
    \o (IF type = "onyomi" THEN to_katakana(m) ELSE m)
    \o B_CLOSE \o From(furigana, i + Len(m) - 1)

\* C6: with the kanji at the left edge the first occurrence of the matched
\* reading is the one wrapped, at the right edge the last; the rest of the
\* furigana is unchanged and the replacement of the unit has one span more
\* than the furigana had.
C6_OneOccurrenceWrapped ==
    (ReadingMatched /\ unit.word_data.edge \in {LEFT, RIGHT})
    => LET m == unit.result.matched
           where == Occurrences(m, unit.word_data.furigana)
           i == IF unit.word_data.edge = LEFT THEN Min(where) ELSE Max(where)
       IN  /\ unit.result.text = Wrapped(unit.word_data.furigana, m, i, unit.result.type)
           /\ Cardinality(Occurrences(B_OPEN, unit.text))
              = Cardinality(Occurrences(B_OPEN, unit.word_data.furigana)) + 1
           /\ Cardinality(Occurrences(B_CLOSE, unit.text))
              = Cardinality(Occurrences(B_CLOSE, unit.word_data.furigana)) + 1

\* Neither pass finds a reading for the word recorded in unit.
NoReadingFound ==
    LET section == get_target_furigana_section(unit.word_data.furigana,
                                               unit.word_data.edge).section
    IN  /\ unit.path = "partial"
        /\ check_onyomi_readings(highlight_args.onyomi, unit.word_data.furigana, section,
                                 unit.word_data.edge, FALSE).type = "none"
        /\ check_kunyomi_readings(highlight_args.kunyomi, unit.word_data.furigana, section,
                                  unit.word_data.edge, FALSE).type = "none"

\* C7: for a word of several characters with the kanji, when neither pass
\* finds a reading, the result comes from handle_jukujigun_case and holds
\* one emphasis span; no message is shown and no exception escapes.
C7_UnresolvableFurigana ==
    NoReadingFound
    => /\ unit.result.how = "jukujigun"
       /\ Cardinality(Occurrences(B_OPEN, unit.result.text)) = 1
       /\ Cardinality(Occurrences(B_CLOSE, unit.result.text)) = 1
       /\ unit.messages = <<>>
       /\ messages = <<>>
       /\ unit.raised = ""
       /\ pc # "raised"

C7_Witness ==
    /\ NoReadingFound
    /\ unit.result.how = "jukujigun"
    /\ unit.word_data.kanji_count = 3
    /\ Len(findall_ALL_MORA(unit.word_data.furigana)) >= 3

\* C8: with m mora and n characters, the mora of character i start at
\* i * (m div n) + min(i, m mod n) and are (m div n) + (1 if i < m mod n)
\* many; handle_jukujigun_case wraps those of the position of the kanji in
\* one span and leaves the others around it.
C8_JukujigunSplit ==
    (unit.path = "partial" /\ unit.result.how = "jukujigun")
    => LET mora == findall_ALL_MORA(unit.word_data.furigana)
           m == Len(mora)
           n == unit.word_data.kanji_count
           i == unit.word_data.kanji_pos
           start == i * (m \div n) + (IF i < m % n THEN i ELSE m % n)
           length == (m \div n) + (IF i < m % n THEN 1 ELSE 0)
       IN  unit.result.text =
               ConcatAll(SubSeq(mora, 1, start)) \o B_OPEN
               \o ConcatAll(SubSeq(mora, start + 1, start + length)) \o B_CLOSE
               \o ConcatAll(SubSeq(mora, start + length + 1, m))

\* A remainder is left over and the kanji is not the first character.
C8_Witness ==
    /\ unit.path = "partial"
    /\ unit.result.how = "jukujigun"
    /\ unit.word_data.kanji_count = 3
    /\ unit.word_data.kanji_pos >= 1
    /\ Len(findall_ALL_MORA(unit.word_data.furigana)) % 3 # 0
    /\ Len(findall_ALL_MORA(unit.word_data.furigana)) > 3
    /\ Len(findall_ALL_MORA(unit.word_data.furigana)) = Len(unit.word_data.furigana)

\* C9: for the word that is the kanji, alone or with the repeater mark, an
\* onyomi match gives <b> + furigana in katakana + </b> + all trailing kana;
\* anything else gives <b> + furigana + the start of the trailing kana +
\* </b> + the rest of the trailing kana.
C9_WholeWord ==
    unit.path = "whole"
    => IF unit.result.type = "onyomi"
       THEN unit.text = B_OPEN \o to_katakana(unit.word_data.furigana) \o B_CLOSE
                        \o unit.word_data.okurigana
       ELSE /\ unit.okurigana_to_highlight \o unit.rest_kana = unit.word_data.okurigana
            /\ unit.text = B_OPEN \o unit.word_data.furigana \o unit.okurigana_to_highlight
                           \o B_CLOSE \o unit.rest_kana

\* A kunyomi match of the whole word takes a part of the trailing kana into
\* the span and leaves a part behind it.
C9_Witness ==
    /\ unit.path = "whole"
    /\ unit.result.type = "kunyomi"
    /\ unit.okurigana_to_highlight # <<>>
    /\ unit.rest_kana # <<>>

\* re.sub has just replaced a match whose furigana starts with "sound:".
SoundJustReplaced ==
    /\ pc = "sub"
    /\ unit # NoUnit
    /\ StartsWith(unit.word_data.furigana, SOUND)

\* C10: the replacement of a unit whose furigana starts with "sound:" is
\* what stands in the brackets and the kana behind them, as they are in
\* the text: no marker, no other script.
C10_SoundPassesThrough ==
    SoundJustReplaced
    => LET w == Len(unit.word_data.word)
           f == Len(unit.word_data.furigana)
           o == Len(unit.word_data.okurigana)
           start == pos - (w + f + o + 2)
       IN  /\ start >= 1
           /\ Len(out) >= f + o
           /\ SubSeq(out, Len(out) - (f + o) + 1, Len(out))
              = SubSeq(clean_text, start + w + 1, start + w + f)
                \o SubSeq(clean_text, start + w + f + 2, pos - 1)
           /\ SubSeq(clean_text, start + w + 1, start + w + Len(SOUND)) = SOUND

\* The word of the audio reference is the kanji itself and kana follow.
C10_Witness ==
    /\ SoundJustReplaced
    /\ unit.word_data.word = <<highlight_args.kanji_to_highlight>>
    /\ unit.word_data.okurigana # <<>>

\* What a match of FURIGANA_REC is to be replaced by when glosses are
\* collapsed to their reading: the content of the brackets, or the whole
\* match when that content is an audio reference.
GlossOrSound(match) ==
    IF StartsWith(match.group2, SOUND) THEN match.group0 ELSE match.group2

RECURSIVE GlossesCollapsed(_)
GlossesCollapsedMatch(text, match) ==
    SubSeq(text, 1, match.start - 1) \o GlossOrSound(match)
    \o GlossesCollapsed(From(text, match.end))

GlossesCollapsedFrom(text, starts) ==
    IF starts = {} THEN text ELSE GlossesCollapsedMatch(text, FuriganaAt(text, Min(starts)))

\* text with every word[gloss] annotation replaced by its gloss
GlossesCollapsed(text) ==
    GlossesCollapsedFrom(text, {s \in 1..Len(text) : FuriganaAt(text, s).found})

\* C11: kana_filter returns the text with every word[gloss] annotation
\* whose gloss is no audio reference replaced by the gloss, and with every
\* kanji that is left after that removed.
C11_GlossesCollapsedToReading ==
    pc = "filtered"
    => filtered.text = KANJI_REC_sub(GlossesCollapsed(Replace(highlight_args.text, NBSP, <<" ">>)))

\* The bracketed glosses of text that begin with the audio marker, brackets
\* included.
SoundBrackets(text) ==
    {SubSeq(text, i, Min({j \in i..Len(text) : text[j] = "]"})) :
        i \in {k \in 1..Len(text) :
                  /\ text[k] = "["
                  /\ StartsWith(From(text, k), SOUND)
                  /\ \E j \in k..Len(text) : text[j] = "]"}}

\* C12: every bracketed gloss of the text that begins with the audio marker
\* is in the return of kana_filter, brackets and content unchanged.
C12_SoundBracketsVerbatim ==
    pc = "filtered"
    => \A bracket \in SoundBrackets(highlight_args.text) : Contains(bracket, filtered.text)

\* The loop of check_kunyomi_readings came to an entry with more than one
\* dot for the word recorded in unit.
MalformedKunyomiReached ==
    /\ unit.path \in {"whole", "partial"}
    /\ unit.result.how = "multiple_dots"

\* C13: when the kunyomi pass comes to an entry with more than one dot, the
\* replacement of the unit is its furigana followed by its trailing kana,
\* with no emphasis marker added, and no exception ends the call.
C13_MalformedKunyomiLeavesGloss ==
    MalformedKunyomiReached
    => /\ unit.text = unit.word_data.furigana \o unit.word_data.okurigana
       /\ unit.raised = ""
       /\ pc # "raised"

\* C14: when the kunyomi pass comes to an entry with more than one dot,
\* show_error_message is called.
C14_MalformedKunyomiReported ==
    MalformedKunyomiReached => unit.messages # <<>> /\ messages # <<>>

\* A marker opens a span in text while an earlier span is still open.
NestedMarkers(text) ==
    \E i \in Occurrences(B_OPEN, text) :
        Cardinality({j \in Occurrences(B_OPEN, text) : j < i})
        > Cardinality({j \in Occurrences(B_CLOSE, text) : j < i})

\* C15: the return of kana_highlight has no span inside another and no
\* span that begins where another ends.  Stated for the texts that bring no
\* marker of their own, so that a marker kept from the input is not what
\* breaks it.
C15_NoNestedOrAdjacentSpans ==
    (pc = "done" /\ ~HasMarker(highlight_args.text))
    => ~NestedMarkers(out) /\ ~Contains(B_CLOSE \o B_OPEN, out)

\* C16: the return of kana_highlight is the same in every process, that
\* is for every iteration order of the sets of endings.
C16_SameOutputInEveryProcess ==
    pc = "done"
    => \A order \in SetOrders :
           out = kana_highlight(highlight_args.kanji_to_highlight, highlight_args.onyomi,
                                highlight_args.kunyomi, highlight_args.text, order)

\* C17: with the kanji at the left edge or in the middle of the word, no
\* trailing kana is highlighted: the replacement of the unit is the
\* processed furigana, in which every span is closed, followed by all the
\* trailing kana.
C17_NoOkuriganaAtLeftOrMiddle ==
    (unit.path = "partial" /\ unit.word_data.edge \in {LEFT, MIDDLE})
    => /\ unit.okurigana_to_highlight = <<>>
       /\ unit.text = unit.result.text \o unit.word_data.okurigana
       /\ Cardinality(Occurrences(B_OPEN, unit.result.text))
          = Cardinality(Occurrences(B_CLOSE, unit.result.text))

\* The kanji is at the left edge, a kunyomi stem was found, and the
\* trailing kana are the ending of a kunyomi entry.
C17_Witness ==
    /\ unit.path = "partial"
    /\ unit.word_data.edge = LEFT
    /\ unit.result.type = "kunyomi"
    /\ unit.result.how \in {"direct", "first_kana", "small_tsu"}
    /\ unit.word_data.okurigana = <<"ru">>
    /\ Contains(<<".", "ru">>, highlight_args.kunyomi)

\* The part of the replacement recorded in unit that stands for the
\* furigana: the replacement without the trailing kana, with the span
\* closed where the highlighted trailing kana were inside it.
OutputGloss ==
    LET tail == Len(unit.okurigana_to_highlight) + Len(unit.rest_kana)
                + (IF unit.okurigana_to_highlight # <<>> THEN Len(B_CLOSE) ELSE 0)
        head == SubSeq(unit.text, 1, Len(unit.text) - tail)
    IN  IF unit.okurigana_to_highlight = <<>> THEN head
        ELSE IF Len(head) >= Len(B_OPEN)
                /\ SubSeq(head, Len(head) - Len(B_OPEN) + 1, Len(head)) = B_OPEN
        THEN SubSeq(head, 1, Len(head) - Len(B_OPEN))
        ELSE head \o B_CLOSE

\* The span a match of the string m is rendered as: m in markers, in
\* katakana for an onyomi.
SpanOf(m, type) == B_OPEN \o (IF type = "onyomi" THEN to_katakana(m) ELSE m) \o B_CLOSE

\* The furigana part of the replacement has a span with the matched string
\* in it, and without such spans it is the furigana without one
\* occurrence of the matched string.
MatchedSubstringInSpan ==
    LET span == SpanOf(unit.result.matched, unit.result.type)
    IN  /\ Contains(span, OutputGloss)
        /\ \E i \in Occurrences(unit.result.matched, unit.word_data.furigana) :
               Replace(OutputGloss, span, <<>>)
               = SubSeq(unit.word_data.furigana, 1, i - 1)
                 \o From(unit.word_data.furigana, i + Len(unit.result.matched) - 1)

\* C18 as stated: after every match of a reading, the text inside the
\* markers is the matched part of the furigana and the furigana outside
\* them is what was not matched.
C18_SpanIsTheMatchedSubstring == ReadingMatched => MatchedSubstringInSpan

\* C18: for a word that has other characters besides the kanji, after a
\* match of a reading the text inside the markers is the matched part of
\* the furigana, in katakana for an onyomi and as it was for a kunyomi,
\* and the furigana outside the markers is what was not matched, unchanged
\* and in order.
C18_SpanIsTheMatchedSubstringInPartialWords ==
    (ReadingMatched /\ unit.path = "partial") => MatchedSubstringInSpan

\* An onyomi matched in the middle of a word through its small tsu variant,
\* and a kunyomi matched at the right edge with trailing kana highlighted.
C18_Witness ==
    /\ ReadingMatched
    /\ unit.path = "partial"
    /\ \/ unit.result.type = "onyomi" /\ unit.result.how = "small_tsu"
          /\ unit.word_data.edge = MIDDLE
       \/ unit.result.type = "kunyomi" /\ unit.okurigana_to_highlight # <<>>

OnyomiVariants(r) ==
    {r}
    \cup (IF Len(r) > 1 /\ r[1] \in DOMAIN HIRAGANA_CONVERSION_DICT
          THEN {<<HIRAGANA_CONVERSION_DICT[r[1]][k]>> \o Tail(r) :
                   k \in 1..Len(HIRAGANA_CONVERSION_DICT[r[1]])}
          ELSE {})
    \cup (IF r # <<>> /\ \E k \in 1..Len(SMALL_TSU_POSSIBLE_HIRAGANA) :
                             r[Len(r)] = SMALL_TSU_POSSIBLE_HIRAGANA[k]
          THEN {SubSeq(r, 1, Len(r) - 1) \o <<"xtu">>}
          ELSE {})

\* A form of an onyomi occurs in the section of the furigana that the edge
\* of the word recorded in unit permits.
OnyomiOccurs ==
    \E r \in OnyomiReadings : \E v \in OnyomiVariants(r) :
        Contains(v, get_target_furigana_section(unit.word_data.furigana,
                                                unit.word_data.edge).section)

\* check_kunyomi_readings finds a kunyomi for the word recorded in unit.
KunyomiOccurs ==
    check_kunyomi_readings(highlight_args.kunyomi, unit.word_data.furigana,
                           get_target_furigana_section(unit.word_data.furigana,
                                                       unit.word_data.edge).section,
                           unit.word_data.edge, TRUE).type = "kunyomi"

\* C20: when a form of an onyomi occurs in the permitted section, the
\* result is an onyomi and all the trailing kana are left over; a kunyomi
\* result means no onyomi occurs, trailing kana are highlighted only with a
\* kunyomi result, and the jukujigun result means neither pass found
\* anything.
C20_PassOrdering ==
    unit.path \in {"whole", "partial"}
    => /\ OnyomiOccurs
          => /\ unit.result.type = "onyomi"
             /\ unit.okurigana_to_highlight = <<>>
             /\ unit.rest_kana = unit.word_data.okurigana
       /\ unit.result.type = "kunyomi" => ~OnyomiOccurs
       /\ unit.okurigana_to_highlight # <<>> => unit.result.type = "kunyomi"
       /\ unit.result.how = "jukujigun" => ~OnyomiOccurs /\ ~KunyomiOccurs

\* An onyomi and a kunyomi both occur in the furigana of the kanji on its
\* own, and the trailing kana are the ending of the kunyomi.
C20_Witness ==
    /\ unit.path = "whole"
    /\ OnyomiOccurs
    /\ KunyomiOccurs
    /\ unit.word_data.okurigana = <<"ru">>
    /\ Contains(<<"ku", ".", "ru">>, highlight_args.kunyomi)
    /\ Contains(<<"ku">>, unit.word_data.furigana)

\* C21: in a word of several characters, with the kanji at the right edge
\* the span of a matched reading extends to the end of the furigana
\* (nothing of the furigana follows the closing marker), and with the kanji
\* at the left edge the span starts at the beginning of the furigana
\* (nothing precedes the opening marker).
C21_SpanAnchoredAtTheEdge ==
    (ReadingMatched /\ unit.path = "partial")
    => LET text == unit.result.text
       IN  /\ unit.word_data.edge = RIGHT
              => SubSeq(text, Len(text) - Len(B_CLOSE) + 1, Len(text)) = B_CLOSE
           /\ unit.word_data.edge = LEFT => StartsWith(text, B_OPEN)

\* C28: the span of a matched reading lies inside the section of the
\* furigana that was searched: the occurrence wrapped is one that covers
\* neither the last character with the kanji at the left edge, nor the
\* first with the kanji at the right edge, nor either in the middle.
C28_SpanInsideTheSearchedSection ==
    (ReadingMatched /\ unit.path = "partial")
    => \E i \in EligibleOccurrences(unit.result.matched, unit.word_data.furigana,
                                    unit.word_data.edge) :
          unit.result.text
          = Wrapped(unit.word_data.furigana, unit.result.matched, i, unit.result.type)

\* highlighted is the trailing kana up to the end of an entry of table, the
\* first kana at most left out of the comparison, and no entry of table
\* that the trailing kana go on with from there is longer.
LongestEndingConsumed(table, okurigana, highlighted) ==
    \E n \in 0..1 :
        /\ n <= Len(highlighted)
        /\ StartsWith(okurigana, highlighted)
        /\ From(highlighted, n) \in table
        /\ \A e \in PrefixEntries(table, From(okurigana, n)) :
              Len(e) <= Len(highlighted) - n

\* C23: when the ending of the trailing kana is looked up in the table of
\* verb endings or of adjective endings and several entries are prefixes of
\* the remainder, the one consumed is the longest of them.
C23_LongestEndingConsumed ==
    /\ unit.verb_order
       => LongestEndingConsumed(VERB_ALL_OKURIGANA, unit.word_data.okurigana,
                                unit.okurigana_to_highlight)
    /\ unit.adj_order
       => LongestEndingConsumed(ADJECTIVE_INFLECTIONS, unit.word_data.okurigana,
                                unit.okurigana_to_highlight)

\* C29: the two parts process_readings returns for the trailing kana of a
\* unit are a split of them: okurigana_to_highlight followed by rest_kana
\* is the trailing kana, and the replacement furigana_replacer composes for
\* the unit ends with them, markers aside.
C29_TrailingKanaConserved ==
    unit.path # ""
    => /\ unit.okurigana_to_highlight \o unit.rest_kana = unit.word_data.okurigana
       /\ (unit.path # "process_readings" /\ unit.raised = "")
          => LET text == RemoveMarkers(unit.text)
                 n == Len(unit.word_data.okurigana)
             IN  /\ Len(text) >= n
                 /\ SubSeq(text, Len(text) - n + 1, Len(text)) = unit.word_data.okurigana

\* An ending of the verb table was consumed from the trailing kana of the
\* unit and kana are left over behind it.
C29_Witness ==
    /\ unit.path \in {"whole", "partial"}
    /\ unit.verb_order
    /\ unit.okurigana_to_highlight # <<>>
    /\ unit.rest_kana # <<>>

\* The entry of the kunyomi list whose stem check_kunyomi_readings found:
\* the first entry with that stem.
MatchingKunyomiEntry ==
    LET entries == Split(highlight_args.kunyomi, ",")
        first == Min({k \in 1..Len(entries) :
                         Split(entries[k], ".")[1] = unit.result.reading})
    IN  entries[first]

C25_JukujigunKeepsTheFurigana ==
    (unit.path = "partial" /\ unit.result.how = "jukujigun")
    => /\ RemoveMarkers(unit.result.text) = unit.word_data.furigana
       /\ Cardinality(Occurrences(B_OPEN, unit.result.text)) = 1
       /\ Cardinality(Occurrences(B_CLOSE, unit.result.text)) = 1

\* The positions of text at which OKURIGANA_MIX_CLEANING_RE matches.
BridgeStarts(text) == {s \in 1..Len(text) : CleaningGroups(text, s).found}

\* text without the kanji and the brackets: the furigana and the kana.
GlossAndKana(text) ==
    SelectSeq(text, LAMBDA c : c \notin KANJI_RE \cup {"[", "]"})

\* C26: the first match of OKURIGANA_MIX_CLEANING_RE in the text is
\* rewritten in clean_text into units whose furigana and kana, read in
\* order, are the furigana of the match: no kana of it is lost.
C26_BridgeRewriteKeepsTheGloss ==
    (pc # "start" /\ BridgeStarts(highlight_args.text) # {})
    => LET match == CleaningGroups(highlight_args.text,
                                   Min(BridgeStarts(highlight_args.text)))
           units == okurigana_mix_cleaning_replacer(match)
       IN  /\ SubSeq(clean_text, match.start, match.start + Len(units) - 1) = units
           /\ GlossAndKana(units)
              = match.furigana1 \o match.hiragana1 \o match.furigana2 \o match.hiragana2

\* C30: a match that check_onyomi_readings or check_kunyomi_readings
\* reports is a match of kana of the furigana: the string that was found is
\* not empty, and the replacement of the unit holds no empty span.
C30_NoMatchOfAnEmptyReading ==
    ReadingMatched
    => /\ unit.result.matched # <<>>
       /\ ~Contains(B_OPEN \o B_CLOSE, unit.text)

\* The endings of the entries of the kunyomi list that have one.
KunyomiEndings ==
    LET entries == Split(highlight_args.kunyomi, ",")
    IN  {Split(entries[k], ".")[2] :
            k \in {j \in 1..Len(entries) : Len(Split(entries[j], ".")) = 2}}

\* check_okurigana_for_kunyomi_inflection returns no extension for the
\* word recorded in unit and the ending: nothing to highlight, all the
\* trailing kana left over.
NoExtensionWith(ending) ==
    LET inflection == check_okurigana_for_kunyomi_inflection(
                          ending, unit.word_data, highlight_args,
                          DefaultOrder(iteration_order))
    IN  /\ inflection.okurigana_to_highlight = <<>>
        /\ inflection.rest_kana = unit.word_data.okurigana

\* C22, as stated: when the trailing kana are empty or start with a kana of
\* NOT_FIRST_KANA, check_okurigana_for_kunyomi_inflection returns no
\* extension, for every ending of the kunyomi list, and none is rendered.
C22_NoExtensionAfterNotFirstKana ==
    (/\ unit.path \in {"whole", "partial"}
     /\ \/ unit.word_data.okurigana = <<>>
        \/ unit.word_data.okurigana[1] \in NOT_FIRST_KANA)
    => /\ \A ending \in KunyomiEndings : NoExtensionWith(ending)
       /\ unit.okurigana_to_highlight = <<>>
       /\ unit.rest_kana = unit.word_data.okurigana

\* C22: when the trailing kana are empty, or start with a kana of
\* NOT_FIRST_KANA and are not the ending itself,
\* check_okurigana_for_kunyomi_inflection returns no extension; none is
\* rendered when that is so for every ending of the kunyomi list.
C22_NoExtensionUnlessTheEndingItself ==
    (/\ unit.path \in {"whole", "partial"}
     /\ \/ unit.word_data.okurigana = <<>>
        \/ unit.word_data.okurigana[1] \in NOT_FIRST_KANA)
    => /\ \A ending \in KunyomiEndings \ {unit.word_data.okurigana} :
             NoExtensionWith(ending)
       /\ unit.word_data.okurigana \notin KunyomiEndings
          => /\ unit.okurigana_to_highlight = <<>>
             /\ unit.rest_kana = unit.word_data.okurigana

\* A kunyomi was found for a word with the kanji at the right edge or on
\* its own, the trailing kana start with a kana of NOT_FIRST_KANA and go on
\* as an entry of the table of verb endings, and the list has the ending of
\* a verb.
C22_Witness ==
    /\ ReadingMatched
    /\ unit.result.type = "kunyomi"
    /\ unit.word_data.edge \in {RIGHT, WHOLE}
    /\ unit.word_data.okurigana # <<>>
    /\ unit.word_data.okurigana[1] \in NOT_FIRST_KANA
    /\ PrefixEntries(VERB_ALL_OKURIGANA, unit.word_data.okurigana) # {}
    /\ <<"ru">> \in KunyomiEndings

\* C27: when process_readings is called with word data without an edge,
\* the message is passed to show_error_message and what is returned has
\* the shape of every other return: a MainResult whose text is the
\* furigana of the unit, nothing to highlight, and the trailing kana.
C27_MissingEdgeReturnsTheGloss ==
    pc = "returned"
    => /\ messages = <<NoEdgeMessage>>
       /\ unit.is_dict
       /\ unit.result.text = unit.word_data.furigana
       /\ unit.okurigana_to_highlight = <<>>
       /\ unit.rest_kana = unit.word_data.okurigana

====
